---- MODULE Spec2Model ----
(***************************************************************************)
(* Verification model of the smol-marketing-claw agent runtime core:       *)
(*   - the manual approval queue          (src/src/approval.py)            *)
(*   - AgentBrain.execute_action gate     (src/src/domain/agent.py)        *)
(*   - the alarm scheduler                (src/src/domain/alarm.py)        *)
(*   - the alarm loop and fire tasks      (src/src/domain/agent.py)        *)
(* All code runs on one asyncio event loop: a step of the model is the     *)
(* code a task runs between two suspension points (await).                 *)
(***************************************************************************)
EXTENDS Integers, Sequences, FiniteSets, TLC

(***************************************************************************)
(* Bounds of the model.                                                    *)
(***************************************************************************)
\* records ever enqueued into the approval queue
MaxRecs == 2
\* direct (un-gated) platform posts that are counted
MaxDirect == 1
\* concurrently running caller tasks (HTTP routes, MCP tools, bot cycles)
Procs == {"t1", "t2"}

\* alarm ids ever handed out by add_alarm or found in the store
MaxAlarmIds == 1
\* days of wall-clock time covered, from Friday 00:00 UTC
HorizonDays == 3
\* fire tasks of one alarm that may exist at once (what the in-flight set is
\* there to keep at one)
MaxTasksPerAlarm == 2
\* AlarmScheduler method calls made on one store
MaxCalls == 3
\* calls recorded by one UsageTracker
MaxUsageCalls == 4
\* clock advances seen by one UsageTracker
MaxUsageTicks == 3
\* reasoning tasks of one agent in flight at once
MaxCycles == 2
\* value at which a bot-chain counter is no longer followed
MaxChainCount == 4
\* the configured channel cap of the history (class attribute
\* _MAX_CHANNELS, 20 by default, 3 in the repository's test)
MAX_CHANNELS == 2
\* exchanges kept per channel (_max_history, 10 by default)
MaxHistory == 1
\* action blocks in one reasoning reply
MaxBlocks == 3

None == "none"

(***************************************************************************)
(* State.                                                                  *)
(***************************************************************************)
VARIABLES
    require_manual_approval, \* CONFIG["require_manual_approval"]
    queue,          \* contents of QUEUE_FILE: sequence of PostApproval
    file_lock,      \* holder of _file_lock, or None
    next_id,        \* next fresh record id (uuid4 never repeats)
    pc,             \* per task: position in the coroutine it runs
    call,           \* per task: its local variables
    ret,            \* per task: the value its call returned
    client_calls,   \* per record id: client.post/reply calls made for it
    direct_posts,   \* client.post calls made by execute_action directly
    now,            \* datetime.now(timezone.utc), minutes since the epoch
    alarms,         \* AlarmScheduler._alarms: alarm_id -> AlarmEntry
    alarm_store,    \* contents of alarms_<bot>.json
    next_alarm_id,  \* next fresh alarm id (uuid4 never repeats)
    fire_tasks,     \* per alarm id: its _fire_alarm tasks, by position
    in_flight,      \* AgentBrain._in_flight_alarms
    sched_call,     \* the AlarmScheduler method called last, with arguments
    sched_ret,      \* what that call returned or raised
    sched_calls,    \* number of such calls made
    usage_limits,   \* CONFIG["usage_limits"]
    usage_calls,    \* UsageTracker._data["calls"]: timestamps, in seconds
    total_calls,    \* UsageTracker._data["total_calls"]
    usage_file,     \* contents of usage.json
    usage_clock,    \* datetime.now(), seconds since the tracker was made
    usage_ticks,    \* number of times the clock was seen to advance
    usage_ret,      \* outcome of check_limits when it was the last step
    usage_status,   \* what get_status or get_warning returned when it was
                    \* the last step: <<value>>, else <<>>
    exec_pc,        \* per task: where its ClaudeExecutor.execute call is
    reply_path,     \* who handles messages: "bot" (a BaseMarketingBot not
                    \* named TeamLead) or "adapter" (DiscordBotAdapter)
    bot_chain_count,     \* _bot_chain_count: channel -> count
    suppress_bot_replies, \* _suppress_bot_replies
    active_tasks,   \* _active_tasks: channel -> task id, 0 for no entry
    cycles,         \* reasoning tasks in flight
    bot_replies,    \* per channel: agent-authored messages answered since
                    \* the last human message there
    channel_history, \* AgentBrain._channel_history: the channels in the
                    \* order of the OrderedDict, each with its log length
    agent_active,   \* AgentBrain._active
    respond_call,   \* the message of the should_respond call, when the
                    \* call was the last step: <<msg>>, else <<>>
    respond_ret,    \* what that call returned: <<value>>, else <<>>
    reply_pc,       \* where the cycle of one message is: "idle",
                    \* "reasoning", "acting", "done"
    reply_msg,      \* the message of the cycle: author kind and channel kind
    reply_cancel,   \* task.cancel() was called on the cycle's reasoning task
    reply_todo,     \* action blocks still to execute, as <<position, code>>
    reply_executed, \* action blocks handed to execute_action, in order
    reply_sent,     \* kinds of messages the cycle has sent to the channel
    reply_saved,    \* the cycle has appended its exchange to the history
    reply_raised,   \* an exception left the handler
    text_pc,        \* where the handling of one text is: "idle",
                    \* "reasoning", "awaiting", "done"
    text_kind,      \* what started it: "message" or "alarm"
    text_raw,       \* the text last received: the inbound message text or
                    \* the stored alarm prompt, then the reasoning output
    text_passed,    \* what was passed on from it: the message argument of
                    \* executor.execute, then the text sent to the channel
    text_executed,  \* number of action blocks handed to the action
                    \* executor
    act_in,         \* the arguments and surroundings of an execute_action
                    \* call: <<input>>, else <<>>
    act_out,        \* how that call ended: <<outcome>>, else <<>>
    agent_rehired,  \* AgentBrain._rehired
    ctx_notices,    \* for each build_context call since the agent was last
                    \* reactivated (since construction before that):
                    \* whether its context held the re-onboarding notice
    hire_seen,      \* whether hire_bot has reactivated the agent
    loop_pc,        \* _alarm_loop: "sleeping", "ended" (the while
                    \* condition was false) or "crashed" (an exception
                    \* left the coroutine)
    loop_closed,    \* what is_closed() returns
    loop_polls,     \* passes of the loop made
    loop_errors,    \* "alarm loop error" lines logged
    loop_fire,      \* per alarm id, its _fire_alarm task: "none",
                    \* "created" or "running" (reasoning call started)
    fire_failed,    \* ids whose _fire_alarm has logged a failure
    last_poll       \* the last pass: whether it raised, the ids it made
                    \* a task for, and the ids whose firing had failed
                    \* before it

approvalVars == <<require_manual_approval, queue, file_lock, next_id, pc,
                  call, ret, client_calls, direct_posts>>

alarmVars == <<now, alarms, alarm_store, next_alarm_id, fire_tasks,
               in_flight>>

schedulerVars == <<sched_call, sched_ret, sched_calls>>

usageVars == <<usage_limits, usage_calls, total_calls, usage_file,
               usage_clock, usage_ticks, usage_ret, usage_status,
               exec_pc>>

channelVars == <<reply_path, bot_chain_count, suppress_bot_replies,
                 active_tasks, cycles, bot_replies>>

historyVars == <<channel_history>>

respondVars == <<agent_active, respond_call, respond_ret>>

replyVars == <<reply_pc, reply_msg, reply_cancel, reply_todo, reply_executed,
               reply_sent, reply_saved, reply_raised>>

textVars == <<text_pc, text_kind, text_raw, text_passed, text_executed>>

\* state of the AgentBrain outside the message and alarm cycles above
actionVars == <<act_in, act_out>>

hrVars == <<agent_rehired, ctx_notices, hire_seen>>

loopVars == <<loop_pc, loop_closed, loop_polls, loop_errors, loop_fire,
              fire_failed, last_poll>>

brainVars == <<textVars, actionVars, hrVars, loopVars>>

vars == <<approvalVars, alarmVars, schedulerVars, usageVars, channelVars,
          historyVars, respondVars, replyVars, brainVars>>

\* what the operations of one component leave alone
restOfApproval ==
    <<alarmVars, schedulerVars, usageVars, channelVars, historyVars,
      respondVars, replyVars,
      brainVars>>
restOfAlarm ==
    <<approvalVars, schedulerVars, usageVars, channelVars, historyVars,
      respondVars, replyVars,
      brainVars>>
restOfScheduler ==
    <<approvalVars, usageVars, channelVars, historyVars, respondVars,
      replyVars,
      brainVars>>
restOfUsage ==
    <<approvalVars, alarmVars, schedulerVars, channelVars, historyVars,
      respondVars, replyVars,
      brainVars>>
restOfChannel ==
    <<approvalVars, alarmVars, schedulerVars, usageVars, historyVars,
      respondVars, replyVars,
      brainVars>>
restOfHistory ==
    <<approvalVars, alarmVars, schedulerVars, usageVars, channelVars,
      respondVars, replyVars,
      brainVars>>
restOfRespond ==
    <<approvalVars, alarmVars, schedulerVars, usageVars, historyVars,
      replyVars,
      brainVars>>
restOfReply ==
    <<approvalVars, alarmVars, schedulerVars, usageVars, historyVars,
      respondVars,
      brainVars>>

(***************************************************************************)
(* Approval queue: data.                                                   *)
(***************************************************************************)
Statuses == {"pending", "approved", "rejected", "posted", "failed"}

\* platforms and action kinds the callers pass to enqueue_post
\* (a reply takes the path of a post with one more argument to the client)
Requests == {<<"x", "post">>, <<"linkedin", "post">>, <<"x", "share">>}

\* AppState holds x_client and threads_client only; _get_client raises for
\* every other platform
HasStateClient(platform) == platform \in {"x", "threads"}

\* PostApproval(...) as built by enqueue_post
NewRecord_approved(id, platform, action) ==
    [id |-> id, platform |-> platform, action |-> action,
     status |-> "approved", post_id |-> None, error |-> None]

NewRecord(id, platform, action) ==
    [id |-> id, platform |-> platform, action |-> action,
     status |-> "pending", post_id |-> None, error |-> None]

NoCall == [op |-> None, rec_id |-> 0, target |-> None, res |-> None,
           err |-> None]

NoRet == [success |-> FALSE, error |-> None, post_id |-> None,
          approval_id |-> 0, pending |-> {}, text |-> None]

\* index of the first record with the id, 0 when there is none
FindIdx(q, rec_id) ==
    IF \E i \in 1..Len(q) : q[i].id = rec_id
    THEN CHOOSE i \in 1..Len(q) :
            /\ q[i].id = rec_id
            /\ \A j \in 1..(i - 1) : q[j].id # rec_id
    ELSE 0

\* _update_status: rewrite of the file with the first matching record's
\* status set and the keyword fields assigned; unchanged when not found
UpdateStatus(q, rec_id, status, kw) ==
    LET i == FindIdx(q, rec_id) IN
    IF i = 0 THEN q
    ELSE [q EXCEPT ![i] =
            [f \in DOMAIN q[i] |->
                IF f \in DOMAIN kw THEN kw[f]
                ELSE IF f = "status" THEN status
                ELSE q[i][f]]]

NoKw == [x \in {} |-> None]

\* list_pending
PendingOf_all(q) == {q[i].id : i \in 1..Len(q)}

PendingOf(q) == {q[i].id : i \in {j \in 1..Len(q) : q[j].status = "pending"}}

\* approve_and_execute line 141: only a pending record may be approved
MayApprove_any(status) == TRUE

MayApprove(status) == status = "pending"

\* the terminal status approve_and_execute stamps for an executor outcome
StampFor_stuck(res) == IF res = "ok" THEN "posted"
                       ELSE IF res = "fail" THEN "failed" ELSE "approved"

StampFor(res) == IF res = "ok" THEN "posted" ELSE "failed"

\* ACTION_MAP: action code -> <<platform, action kind>>
ACTION_MAP ==
    [POST_THREADS |-> <<"threads", "post">>,
     POST_LINKEDIN |-> <<"linkedin", "post">>,
     POST_INSTAGRAM |-> <<"instagram", "post">>,
     POST_X |-> <<"x", "post">>,
     SEARCH_NEWS |-> <<"news", "search">>,
     SET_ALARM |-> <<"alarm", "set">>,
     CANCEL_ALARM |-> <<"alarm", "cancel">>]

\* the platform clients this brain was constructed with (self._clients)
BrainClients == {"x"}

\* action codes and bodies a reasoning reply hands to execute_action here
\* (the alarm codes are exercised with the scheduler)
ActionTypes == {"POST_X", "POST_LINKEDIN", "SEARCH_NEWS", "DANCE"}
Bodies == {"", "hello"}

\* agent.py line 353: is the action handed to the approval queue?
ApprovalGate_off == FALSE

ApprovalGate == require_manual_approval

(***************************************************************************)
(* Approval queue: operations.                                             *)
(***************************************************************************)
\* A call's first statement is "async with _file_lock": the call starts when
\* it enters the block (nothing is read or written before it).

\* approve_and_execute re-entering the lock for the terminal stamp
AcquireForStamp(p) ==
    /\ pc[p] = "stamp_wait"
    /\ file_lock = None
    /\ file_lock' = p
    /\ pc' = [pc EXCEPT ![p] = "stamp_cs"]
    /\ UNCHANGED restOfApproval
    /\ UNCHANGED <<require_manual_approval, queue, next_id, call, ret,
                   client_calls, direct_posts>>

\* A gated caller (sns_routes x_post/x_reply/..., the MCP sns tools) with
\* the approval policy on: enqueue_post, the record built with a fresh id
EnqueueBegin(p, platform, action) ==
    /\ pc[p] = "idle"
    /\ ApprovalGate
    /\ next_id <= MaxRecs
    /\ call' = [call EXCEPT ![p] =
                  [NoCall EXCEPT !.op = "enqueue_post", !.rec_id = next_id,
                                 !.target = NewRecord(next_id, platform, action)]]
    /\ next_id' = next_id + 1
    /\ file_lock = None
    /\ file_lock' = p
    /\ pc' = [pc EXCEPT ![p] = "enq_cs"]
    /\ UNCHANGED restOfApproval
    /\ UNCHANGED <<require_manual_approval, queue, ret, client_calls,
                   direct_posts>>

\* enqueue_post under the lock: _append_record, then the return value
\* (execute_action wraps it into its "awaiting approval" text)
EnqueueAppend(p) ==
    /\ pc[p] = "enq_cs"
    /\ file_lock = p
    /\ queue' = Append(queue, call[p].target)
    /\ file_lock' = None
    /\ ret' = [ret EXCEPT ![p] =
                 [NoRet EXCEPT !.success = TRUE,
                               !.approval_id = call[p].rec_id,
                               !.text = IF call[p].op = "execute_action"
                                        THEN "approval_pending" ELSE None]]
    /\ pc' = [pc EXCEPT ![p] = "done"]
    /\ call' = [call EXCEPT ![p].target = None]
    /\ UNCHANGED restOfApproval
    /\ UNCHANGED <<require_manual_approval, next_id, client_calls,
                   direct_posts>>

\* list_pending: reads the file without the lock
ListPending(p) ==
    /\ pc[p] = "idle"
    /\ call' = [call EXCEPT ![p] = [NoCall EXCEPT !.op = "list_pending"]]
    /\ ret' = [ret EXCEPT ![p] =
                 [NoRet EXCEPT !.success = TRUE, !.pending = PendingOf(queue)]]
    /\ pc' = [pc EXCEPT ![p] = "done"]
    /\ UNCHANGED restOfApproval
    /\ UNCHANGED <<require_manual_approval, queue, file_lock, next_id,
                   client_calls, direct_posts>>

ApproveBegin(p, rec_id) ==
    /\ pc[p] = "idle"
    /\ call' = [call EXCEPT ![p] =
                  [NoCall EXCEPT !.op = "approve_and_execute", !.rec_id = rec_id]]
    /\ file_lock = None
    /\ file_lock' = p
    /\ pc' = [pc EXCEPT ![p] = "apv_cs"]
    /\ UNCHANGED restOfApproval
    /\ UNCHANGED <<require_manual_approval, queue, next_id, ret,
                   client_calls, direct_posts>>

\* the lock as the first "async with _file_lock" block of
\* approve_and_execute leaves it, were the block to reach over the call
AfterFlipBlock_held(p) == p

\* the lock as the first "async with _file_lock" block of
\* approve_and_execute leaves it (line 143 ends the block)
AfterFlipBlock(p) == None

\* approve_and_execute lines 136-143, under the lock
ApproveFlip(p) ==
    /\ pc[p] = "apv_cs"
    /\ file_lock = p
    /\ file_lock' = AfterFlipBlock(p)
    /\ LET i == FindIdx(queue, call[p].rec_id) IN
       IF i = 0
       THEN /\ ret' = [ret EXCEPT ![p] = [NoRet EXCEPT !.error = "not_found"]]
            /\ pc' = [pc EXCEPT ![p] = "done"]
            /\ UNCHANGED <<queue, call>>
       ELSE IF ~MayApprove(queue[i].status)
       THEN /\ ret' = [ret EXCEPT ![p] =
                         [NoRet EXCEPT !.error = "invalid_status:" \o queue[i].status]]
            /\ pc' = [pc EXCEPT ![p] = "done"]
            /\ UNCHANGED <<queue, call>>
       ELSE /\ queue' = UpdateStatus(queue, call[p].rec_id, "approved", NoKw)
            /\ call' = [call EXCEPT ![p].target = queue[i]]
            /\ pc' = [pc EXCEPT ![p] = "apv_call"]
            /\ UNCHANGED ret
    /\ UNCHANGED restOfApproval
    /\ UNCHANGED <<require_manual_approval, next_id, client_calls, direct_posts>>

\* approve_and_execute lines 145-157: _get_client, then client.post /
\* client.reply is awaited, or ValueError is raised
ApproveCall(p) ==
    /\ pc[p] = "apv_call"
    /\ LET t == call[p].target IN
       IF ~HasStateClient(t.platform)
       THEN /\ call' = [call EXCEPT ![p].res = "raise",
                                    ![p].err = "unsupported platform"]
            /\ pc' = [pc EXCEPT ![p] = "stamp_wait"]
            /\ UNCHANGED client_calls
       ELSE IF t.action \in {"post", "reply"}
       THEN /\ client_calls' = [client_calls EXCEPT ![t.id] = @ + 1]
            /\ pc' = [pc EXCEPT ![p] = "apv_inflight"]
            /\ UNCHANGED call
       ELSE /\ call' = [call EXCEPT ![p].res = "raise",
                                    ![p].err = "unsupported action"]
            /\ pc' = [pc EXCEPT ![p] = "stamp_wait"]
            /\ UNCHANGED client_calls
    /\ UNCHANGED restOfApproval
    /\ UNCHANGED <<require_manual_approval, queue, file_lock, next_id, ret,
                   direct_posts>>

\* the awaited client call completes: PostResult(success), PostResult
\* (failure), or an exception
ExecutorErr(res) == IF res = "ok" THEN None
                    ELSE IF res = "fail" THEN "api_error" ELSE "exception"

ApproveExecutorReturn(p, res) ==
    /\ pc[p] = "apv_inflight"
    /\ call' = [call EXCEPT ![p].res = res, ![p].err = ExecutorErr(res)]
    /\ pc' = [pc EXCEPT ![p] = "stamp_wait"]
    /\ UNCHANGED restOfApproval
    /\ UNCHANGED <<require_manual_approval, queue, file_lock, next_id, ret,
                   client_calls, direct_posts>>

\* approve_and_execute lines 159-170: the terminal stamp, under the lock
ApproveStamp(p) ==
    /\ pc[p] = "stamp_cs"
    /\ file_lock = p
    /\ file_lock' = None
    /\ LET res == call[p].res
           kw == IF res = "ok" THEN [post_id |-> "123"]
                 ELSE [error |-> call[p].err]
       IN /\ queue' = UpdateStatus(queue, call[p].rec_id, StampFor(res), kw)
          /\ ret' = [ret EXCEPT ![p] =
                       IF res = "ok"
                       THEN [NoRet EXCEPT !.success = TRUE, !.post_id = "123"]
                       ELSE [NoRet EXCEPT !.error = call[p].err]]
    /\ pc' = [pc EXCEPT ![p] = "done"]
    /\ call' = [call EXCEPT ![p].target = None, ![p].res = None,
                             ![p].err = None]
    /\ UNCHANGED restOfApproval
    /\ UNCHANGED <<require_manual_approval, next_id, client_calls,
                   direct_posts>>

RejectBegin(p, rec_id) ==
    /\ pc[p] = "idle"
    /\ call' = [call EXCEPT ![p] = [NoCall EXCEPT !.op = "reject", !.rec_id = rec_id]]
    /\ file_lock = None
    /\ file_lock' = p
    /\ pc' = [pc EXCEPT ![p] = "rej_cs"]
    /\ UNCHANGED restOfApproval
    /\ UNCHANGED <<require_manual_approval, queue, next_id, ret,
                   client_calls, direct_posts>>

\* reject lines 174-178: _update_status(rec_id, "rejected") under the lock
RejectBody(p) ==
    /\ pc[p] = "rej_cs"
    /\ file_lock = p
    /\ file_lock' = None
    /\ queue' = UpdateStatus(queue, call[p].rec_id, "rejected", NoKw)
    /\ ret' = [ret EXCEPT ![p] =
                 IF FindIdx(queue, call[p].rec_id) = 0
                 THEN [NoRet EXCEPT !.error = "not_found"]
                 ELSE [NoRet EXCEPT !.success = TRUE]]
    /\ pc' = [pc EXCEPT ![p] = "done"]
    /\ UNCHANGED restOfApproval
    /\ UNCHANGED <<require_manual_approval, next_id, call, client_calls,
                   direct_posts>>

(***************************************************************************)
(* AgentBrain.execute_action for platform actions.                         *)
(***************************************************************************)
ReturnText(p, text) ==
    /\ ret' = [ret EXCEPT ![p] = [NoRet EXCEPT !.success = TRUE, !.text = text]]
    /\ pc' = [pc EXCEPT ![p] = "done"]

ExecuteAction(p, action_type, body) ==
    /\ pc[p] = "idle"
    /\ IF action_type \notin DOMAIN ACTION_MAP
       THEN /\ ReturnText(p, "unknown_action")
            /\ call' = [call EXCEPT ![p] = [NoCall EXCEPT !.op = "execute_action"]]
            /\ UNCHANGED <<next_id, direct_posts, file_lock>>
       ELSE LET platform == ACTION_MAP[action_type][1]
                action_kind == ACTION_MAP[action_type][2]
            IN
            IF body = ""
            THEN /\ ReturnText(p, "empty_body")
                 /\ call' = [call EXCEPT ![p] = [NoCall EXCEPT !.op = "execute_action"]]
                 /\ UNCHANGED <<next_id, direct_posts, file_lock>>
            ELSE IF action_type = "SEARCH_NEWS" /\ "news" \notin BrainClients
            THEN /\ ReturnText(p, "no_client")
                 /\ call' = [call EXCEPT ![p] = [NoCall EXCEPT !.op = "execute_action"]]
                 /\ UNCHANGED <<next_id, direct_posts, file_lock>>
            ELSE IF platform \notin BrainClients
            THEN /\ ReturnText(p, "no_client")
                 /\ call' = [call EXCEPT ![p] = [NoCall EXCEPT !.op = "execute_action"]]
                 /\ UNCHANGED <<next_id, direct_posts, file_lock>>
            ELSE IF ApprovalGate
            THEN /\ next_id <= MaxRecs
                 /\ call' = [call EXCEPT ![p] =
                      [NoCall EXCEPT !.op = "execute_action", !.rec_id = next_id,
                                     !.target = NewRecord(next_id, platform, action_kind)]]
                 /\ next_id' = next_id + 1
                 /\ file_lock = None
                 /\ file_lock' = p
                 /\ pc' = [pc EXCEPT ![p] = "enq_cs"]
                 /\ UNCHANGED <<ret, direct_posts>>
            ELSE /\ direct_posts < MaxDirect
                 /\ direct_posts' = direct_posts + 1
                 /\ call' = [call EXCEPT ![p] = [NoCall EXCEPT !.op = "execute_action"]]
                 /\ pc' = [pc EXCEPT ![p] = "act_inflight"]
                 /\ UNCHANGED <<ret, next_id, file_lock>>
    /\ UNCHANGED restOfApproval
    /\ UNCHANGED <<require_manual_approval, queue, client_calls>>

\* execute_action lines 364-371: the direct client.post completes
DirectPostReturn(p, res) ==
    /\ pc[p] = "act_inflight"
    /\ ReturnText(p, IF res = "ok" THEN "posted"
                     ELSE IF res = "fail" THEN "post_failed" ELSE "post_error")
    /\ UNCHANGED restOfApproval
    /\ UNCHANGED <<require_manual_approval, queue, file_lock, next_id, call,
                   client_calls, direct_posts>>

\* the caller takes the returned value; the task is free for its next call
Return(p) ==
    /\ pc[p] = "done"
    /\ pc' = [pc EXCEPT ![p] = "idle"]
    /\ call' = [call EXCEPT ![p] = NoCall]
    /\ ret' = [ret EXCEPT ![p] = NoRet]
    /\ UNCHANGED restOfApproval
    /\ UNCHANGED <<require_manual_approval, queue, file_lock, next_id,
                   client_calls, direct_posts>>

ExecutorResults == {"ok", "fail", "raise"}

InitApproval ==
    /\ require_manual_approval \in BOOLEAN
    /\ queue = <<>>
    /\ file_lock = None
    /\ next_id = 1
    /\ pc = [p \in Procs |-> "idle"]
    /\ call = [p \in Procs |-> NoCall]
    /\ ret = [p \in Procs |-> NoRet]
    /\ client_calls = [i \in 1..MaxRecs |-> 0]
    /\ direct_posts = 0

NextApproval ==
    \E p \in Procs :
        \/ AcquireForStamp(p)
        \/ \E rq \in Requests : EnqueueBegin(p, rq[1], rq[2])
        \/ EnqueueAppend(p)
        \/ ListPending(p)
        \/ \E i \in 1..MaxRecs : ApproveBegin(p, i)
        \/ ApproveFlip(p)
        \/ ApproveCall(p)
        \/ \E res \in ExecutorResults : ApproveExecutorReturn(p, res)
        \/ ApproveStamp(p)
        \/ \E i \in 1..MaxRecs : RejectBegin(p, i)
        \/ RejectBody(p)
        \/ \E t \in ActionTypes, b \in Bodies : ExecuteAction(p, t, b)
        \/ \E res \in ExecutorResults : DirectPostReturn(p, res)
        \/ Return(p)

\* the alarm side at rest
\* no AlarmScheduler method has been called yet
NoSchedCall == [op |-> None,
                s |-> [form |-> None, a |-> 0, b |-> 0, unit |-> None],
                tz |-> None, id |-> 0]

NoSchedRet == [error |-> None, id |-> 0, found |-> FALSE]

SchedulerIdle ==
    /\ sched_call = NoSchedCall
    /\ sched_ret = NoSchedRet
    /\ sched_calls = 0

\* CONFIG["usage_limits"] as shipped
DefaultLimits ==
    [max_calls_per_minute |-> 60, max_calls_per_hour |-> 500,
     max_calls_per_day |-> 10000, min_call_interval_seconds |-> 1,
     paused |-> FALSE]

\* UsageTracker._load without a usage file
NoUsage == [calls |-> <<>>, total_calls |-> 0]

\* no text under way
TextIdle ==
    /\ text_pc = "idle"
    /\ text_kind = None
    /\ text_raw = <<>>
    /\ text_passed = <<>>
    /\ text_executed = 0

\* no execute_action call made
ActionIdle == act_in = <<>> /\ act_out = <<>>

\* passes of the alarm loop followed
MaxPolls == 3

\* build_context calls followed after a reactivation
MaxContexts == 2

\* the alarm ids the loop finds due
LoopAlarmIds == {"a1", "a2"}

\* a brain that was never deactivated and has built no context
HrIdle ==
    /\ agent_rehired = FALSE
    /\ ctx_notices = <<>>
    /\ hire_seen = FALSE

\* the alarm loop as start_alarm_loop leaves it: in its first sleep
LoopIdle ==
    /\ loop_pc = "sleeping"
    /\ loop_closed = FALSE
    /\ loop_polls = 0
    /\ loop_errors = 0
    /\ loop_fire = [id \in LoopAlarmIds |-> "none"]
    /\ fire_failed = {}
    /\ last_poll = [raised |-> FALSE, made |-> {}, failed_before |-> {}]

BrainIdle == TextIdle /\ ActionIdle /\ HrIdle /\ LoopIdle

\* a fresh UsageTracker that nothing has called
UsageIdle ==
    /\ usage_limits = DefaultLimits
    /\ usage_calls = NoUsage.calls
    /\ total_calls = NoUsage.total_calls
    /\ usage_file = NoUsage
    /\ usage_clock = 0
    /\ usage_ticks = 0
    /\ exec_pc = [p \in Procs |-> "idle"]
    /\ usage_ret = None
    /\ usage_status = <<>>

\* channels the agent sees: its 1:1 channel and two shared channels
ChannelIds == {"own", "team1", "team2"}

TeamChannelIds == {"team1", "team2"}

\* an agent that has received no message
ChannelIdle ==
    /\ reply_path = "bot"
    /\ bot_chain_count = [c \in ChannelIds |-> 0]
    /\ suppress_bot_replies = FALSE
    /\ active_tasks = [c \in ChannelIds |-> 0]
    /\ cycles = {}
    /\ bot_replies = [c \in ChannelIds |-> 0]

\* an agent without conversation history
HistoryIdle == channel_history = <<>>

NoReplyMsg == [by_bot |-> FALSE, place |-> None]

\* no message cycle under way
ReplyIdle ==
    /\ reply_pc = "idle"
    /\ reply_msg = NoReplyMsg
    /\ reply_cancel = FALSE
    /\ reply_todo = <<>>
    /\ reply_executed = <<>>
    /\ reply_sent = {}
    /\ reply_saved = FALSE
    /\ reply_raised = FALSE

\* an active agent that was not asked whether to respond
RespondIdle ==
    /\ agent_active = TRUE
    /\ respond_call = <<>>
    /\ respond_ret = <<>>

AlarmIdle ==
    /\ now = 0
    /\ alarms = <<>>
    /\ alarm_store = <<>>
    /\ next_alarm_id = 1
    /\ fire_tasks = <<>>
    /\ in_flight = {}

InitApprovalSpec ==
    InitApproval /\ AlarmIdle /\ SchedulerIdle /\ UsageIdle
      /\ BrainIdle /\ ChannelIdle
      /\ HistoryIdle /\ RespondIdle /\ ReplyIdle

SpecApproval == InitApprovalSpec /\ [][NextApproval]_vars

(***************************************************************************)
(* Alarm scheduler: time and zones.                                        *)
(* Instants are minutes since the epoch, a Friday 00:00 UTC; the zones     *)
(* carry their standard offset (no transition falls in the horizon).       *)
(***************************************************************************)
MinutesPerDay == 24 * 60

\* the wall clock is sampled every six hours
TickMinutes == 6 * 60

\* _MAX_ALARMS_PER_BOT
MaxAlarmsPerBot == 20
\* _MIN_INTERVAL_MINUTES
MinIntervalMinutes == 10

AlarmIds == 1..MaxAlarmIds

\* ZoneInfo(tz): the zones known to the zone database
KnownZones == {"UTC", "Asia/Seoul"}

\* utcoffset of the zone, in minutes
ZoneOffset(tz) == IF tz = "Asia/Seoul" THEN 9 * 60 ELSE 0

\* now_utc.astimezone(tz).date(), as days since the epoch date
LocalDate(t, tz) == (t + ZoneOffset(tz)) \div MinutesPerDay

\* minutes since local midnight of now_utc.astimezone(tz)
LocalTimeOfDay(t, tz) == (t + ZoneOffset(tz)) % MinutesPerDay

\* now_local.weekday(): Monday = 0 ... Sunday = 6 (the epoch is a Friday)
LocalWeekday(t, tz) == (LocalDate(t, tz) + 4) % 7

\* not (now_local < scheduled_time), scheduled_time = now_local with the
\* entry's hour and minute and zero seconds
AtOrPast_strict(t, tz, hour, minute) ==
    LocalTimeOfDay(t, tz) > hour * 60 + minute

AtOrPast(t, tz, hour, minute) ==
    LocalTimeOfDay(t, tz) >= hour * 60 + minute

\* Optional[int] fields that are None
Null == -1

\* AlarmEntry (last_run and fire_at: <<>> for the empty string, else <<t>>)
Entry(id, parsed, tz, fire_at) ==
    [alarm_id |-> id, schedule_type |-> parsed.type, hour |-> parsed.hour,
     minute |-> parsed.minute, interval_minutes |-> parsed.interval_minutes,
     tz |-> tz, last_run |-> <<>>, fire_at |-> fire_at, enabled |-> TRUE]

(***************************************************************************)
(* _parse_schedule.  A schedule string is given by its form and numbers:   *)
(* Sched("daily", 9, 0, "") is "daily 09:00", Sched("every", 6, 0, "h") is *)
(* "every 6h"; any other form matches no pattern.                          *)
(***************************************************************************)
Sched(form, a, b, unit) == [form |-> form, a |-> a, b |-> b, unit |-> unit]

ParseError == [ok |-> FALSE, type |-> None, hour |-> Null, minute |-> Null,
               interval_minutes |-> Null]

\* _parse_schedule with a duration below the minimum raised to the minimum
ParseSchedule_clamped(s) ==
    IF s.form \in {"daily", "weekday"}
    THEN IF ~(0 <= s.a /\ s.a <= 23 /\ 0 <= s.b /\ s.b <= 59)
         THEN ParseError
         ELSE [ok |-> TRUE, type |-> s.form, hour |-> s.a, minute |-> s.b,
               interval_minutes |-> Null]
    ELSE IF s.form \in {"every", "once"}
    THEN LET minutes == IF s.unit = "h" THEN s.a * 60 ELSE s.a IN
         [ok |-> TRUE,
          type |-> IF s.form = "every" THEN "interval" ELSE "once",
          hour |-> Null, minute |-> Null,
          interval_minutes |-> IF minutes < MinIntervalMinutes
                               THEN MinIntervalMinutes ELSE minutes]
    ELSE ParseError

ParseSchedule(s) ==
    IF s.form \in {"daily", "weekday"}
    THEN IF ~(0 <= s.a /\ s.a <= 23 /\ 0 <= s.b /\ s.b <= 59)
         THEN ParseError
         ELSE [ok |-> TRUE, type |-> s.form, hour |-> s.a, minute |-> s.b,
               interval_minutes |-> Null]
    ELSE IF s.form \in {"every", "once"}
    THEN LET minutes == IF s.unit = "h" THEN s.a * 60 ELSE s.a IN
         IF minutes < MinIntervalMinutes
         THEN ParseError
         ELSE [ok |-> TRUE,
               type |-> IF s.form = "every" THEN "interval" ELSE "once",
               hour |-> Null, minute |-> Null, interval_minutes |-> minutes]
    ELSE ParseError

\* <<schedule string, zone name>> pairs handed to add_alarm
AlarmInputs ==
    {<<Sched("daily", 9, 0, ""), "UTC">>,
     <<Sched("daily", 9, 0, ""), "Asia/Seoul">>,
     <<Sched("weekday", 3, 0, ""), "Asia/Seoul">>,
     <<Sched("every", 6, 0, "h"), "UTC">>,
     <<Sched("every", 720, 0, "m"), "UTC">>,
     <<Sched("once", 6, 0, "h"), "UTC">>,
     <<Sched("every", 5, 0, "m"), "UTC">>,
     <<Sched("hourly", 0, 0, ""), "UTC">>,
     <<Sched("daily", 9, 0, ""), "Mars/Olympus">>}

(***************************************************************************)
(* _is_due and get_due_alarms.                                             *)
(***************************************************************************)
\* the last_run check of a daily or weekday entry: it has run on the local
\* date of now_utc
RanToday_never(alarm, now_utc) == FALSE

RanToday(alarm, now_utc) ==
    /\ alarm.last_run # <<>>
    /\ LocalDate(alarm.last_run[1], alarm.tz) = LocalDate(now_utc, alarm.tz)

\* the interval branch of _is_due
IntervalDue_strict(alarm, now_utc) ==
    IF alarm.last_run = <<>> THEN TRUE
    ELSE now_utc - alarm.last_run[1] > alarm.interval_minutes

IntervalDue(alarm, now_utc) ==
    IF alarm.last_run = <<>> THEN TRUE
    ELSE now_utc - alarm.last_run[1] >= alarm.interval_minutes

\* the once branch of _is_due
OnceDue_rerun(alarm, now_utc) ==
    IF alarm.fire_at = <<>> THEN FALSE
    ELSE now_utc >= alarm.fire_at[1]

OnceDue_early(alarm, now_utc) ==
    IF alarm.last_run # <<>> THEN FALSE
    ELSE alarm.fire_at # <<>>

OnceDue(alarm, now_utc) ==
    IF alarm.last_run # <<>> THEN FALSE
    ELSE IF alarm.fire_at = <<>> THEN FALSE
    ELSE now_utc >= alarm.fire_at[1]

IsDue(alarm, now_utc) ==
    IF alarm.tz \notin KnownZones THEN FALSE
    ELSE IF alarm.schedule_type \in {"daily", "weekday"}
    THEN IF alarm.schedule_type = "weekday"
            /\ LocalWeekday(now_utc, alarm.tz) >= 5
         THEN FALSE
         ELSE IF ~AtOrPast(now_utc, alarm.tz, alarm.hour, alarm.minute)
         THEN FALSE
         ELSE IF RanToday(alarm, now_utc)
         THEN FALSE
         ELSE TRUE
    ELSE IF alarm.schedule_type = "interval"
    THEN IntervalDue(alarm, now_utc)
    ELSE IF alarm.schedule_type = "once"
    THEN OnceDue(alarm, now_utc)
    ELSE FALSE

GetDueAlarms(a, now_utc) ==
    {id \in DOMAIN a : a[id].enabled /\ IsDue(a[id], now_utc)}

\* mark_run: stamps last_run of an entry that is still registered
MarkRun_noop(a, alarm_id, now_utc) == a

MarkRun(a, alarm_id, now_utc) ==
    IF alarm_id \in DOMAIN a
    THEN [a EXCEPT ![alarm_id].last_run = <<now_utc>>]
    ELSE a

(***************************************************************************)
(* The store: a JSON list of objects, one per entry.  An item is a record  *)
(* of the entry's fields; a key that is absent from the object is Null     *)
(* (alarm_id) or None (tz).                                                *)
(***************************************************************************)
RECURSIVE DumpIds(_, _)
\* [asdict(a) for a in self._alarms.values()], in the order the entries were
\* made (ids are handed out in increasing order)
DumpIds(a, ids) ==
    IF ids = {} THEN <<>>
    ELSE LET m == CHOOSE i \in ids : \A j \in ids : i <= j
         IN  <<a[m]>> \o DumpIds(a, ids \ {m})

Dump(a) == DumpIds(a, DOMAIN a)

\* AlarmEntry(...) built from one stored item
LoadEntry(item) ==
    [item EXCEPT !.tz = IF @ = None THEN "Asia/Seoul" ELSE @]

\* _load: items without alarm_id are skipped; a later item with the same id
\* replaces an earlier one
Load(store) ==
    LET ids == {store[i].alarm_id : i \in 1..Len(store)} \ {Null}
        last(id) == CHOOSE i \in 1..Len(store) :
                        /\ store[i].alarm_id = id
                        /\ \A j \in (i + 1)..Len(store) :
                              store[j].alarm_id # id
    IN  [id \in ids |-> LoadEntry(store[last(id)])]

\* _save: the whole entry set replaces the file, or, when writing fails, the
\* error is logged and the file stays as it was
Save(a, saved) == IF saved THEN Dump(a) ELSE alarm_store

\* del self._alarms[alarm_id]
Without(a, alarm_id) == [i \in (DOMAIN a) \ {alarm_id} |-> a[i]]

\* the alarm loop's in-flight check (agent.py line 230)
InFlightSkip_never(alarm_id) == FALSE

InFlightSkip(alarm_id) == alarm_id \in in_flight

(***************************************************************************)
(* Alarm scheduler operations (each ends with _save).                      *)
(***************************************************************************)
\* time passes; a task made by create_task runs up to its first await in the
\* loop turn that follows, before the clock reading changes
Tick ==
    /\ \A id \in AlarmIds : fire_tasks[id].created = 0
    /\ now + TickMinutes <= HorizonDays * MinutesPerDay
    /\ now' = now + TickMinutes
    /\ UNCHANGED <<alarms, alarm_store, next_alarm_id, fire_tasks,
                   in_flight>>
    /\ UNCHANGED restOfAlarm

\* add_alarm(schedule_str, prompt, channel_id, created_by, tz): the error it
\* raises, or None
AddAlarmError_nocap(a, s, tz) ==
    IF ~ParseSchedule(s).ok THEN "schedule"
    ELSE IF tz \notin KnownZones THEN "timezone"
    ELSE None

AddAlarmError(a, s, tz) ==
    IF Cardinality(DOMAIN a) >= MaxAlarmsPerBot THEN "limit"
    ELSE IF ~ParseSchedule(s).ok THEN "schedule"
    ELSE IF tz \notin KnownZones THEN "timezone"
    ELSE None

\* the entry set after add_alarm has stored the new entry
WithNewEntry(a, s, tz) ==
    LET parsed == ParseSchedule(s)
        fire_at == IF parsed.type = "once"
                   THEN <<now + parsed.interval_minutes>>
                   ELSE <<>>
    IN  [i \in (DOMAIN a) \cup {next_alarm_id} |->
           IF i = next_alarm_id
           THEN Entry(next_alarm_id, parsed, tz, fire_at)
           ELSE a[i]]

\* add_alarm: what it does to the scheduler and its store
AddAlarmBody(s, tz, saved) ==
    IF AddAlarmError(alarms, s, tz) # None
    THEN UNCHANGED <<alarms, alarm_store, next_alarm_id>>
    ELSE /\ alarms' = WithNewEntry(alarms, s, tz)
         /\ alarm_store' = Save(alarms', saved)
         /\ next_alarm_id' = next_alarm_id + 1

\* remove_alarm(alarm_id)
RemoveAlarmBody(alarm_id, saved) ==
    IF alarm_id \in DOMAIN alarms
    THEN /\ alarms' = Without(alarms, alarm_id)
         /\ alarm_store' = Save(alarms', saved)
    ELSE UNCHANGED <<alarms, alarm_store>>

\* mark_run(alarm_id, now_utc)
MarkRunBody(alarm_id, saved) ==
    /\ alarms' = MarkRun(alarms, alarm_id, now)
    /\ alarm_store' = IF alarm_id \in DOMAIN alarms
                      THEN Save(alarms', saved)
                      ELSE alarm_store

\* add_alarm called by the SET_ALARM action while the alarm loop runs (the
\* store is writable)
AddAlarm(s, tz) ==
    /\ next_alarm_id <= MaxAlarmIds
    /\ AddAlarmBody(s, tz, TRUE)
    /\ UNCHANGED <<now, fire_tasks, in_flight>>
    /\ UNCHANGED restOfAlarm

\* remove_alarm called by the CANCEL_ALARM action
RemoveAlarm(alarm_id) ==
    /\ RemoveAlarmBody(alarm_id, TRUE)
    /\ UNCHANGED <<now, next_alarm_id, fire_tasks, in_flight>>
    /\ UNCHANGED restOfAlarm

(***************************************************************************)
(* The alarm loop and its fire tasks.                                      *)
(***************************************************************************)
NoTasks == [created |-> 0, executing |-> 0, sending |-> 0]

TaskCount(id) ==
    fire_tasks[id].created + fire_tasks[id].executing + fire_tasks[id].sending

\* One pass of _alarm_loop after its sleep.  A task made by create_task runs
\* up to its first await before the loop's next sleep ends, so no task of an
\* earlier pass is still unstarted.
Poll ==
    /\ \A id \in AlarmIds : fire_tasks[id].created = 0
    /\ LET d == GetDueAlarms(alarms, now)
           fired == {id \in d : ~InFlightSkip(id)}
       IN /\ \A id \in fired : TaskCount(id) < MaxTasksPerAlarm
          /\ fire_tasks' = [id \in AlarmIds |->
                              IF id \in fired
                              THEN [fire_tasks[id] EXCEPT !.created = @ + 1]
                              ELSE fire_tasks[id]]
    /\ UNCHANGED <<now, alarms, alarm_store, next_alarm_id, in_flight>>
    /\ UNCHANGED restOfAlarm

\* finally: self._in_flight_alarms.discard(alarm.alarm_id)
AfterFireEnds_kept(id) == in_flight

AfterFireEnds(id) == in_flight \ {id}

\* the removal at the end of the try block: reached when every send has
\* returned, taken for a once alarm
OnceCompleted_anyEnd(id, res) ==
    id \in DOMAIN alarms /\ alarms[id].schedule_type = "once"

OnceCompleted(id, res) ==
    res = "ok" /\ id \in DOMAIN alarms /\ alarms[id].schedule_type = "once"

\* _fire_alarm up to its first await: the id enters the in-flight set,
\* mark_run, then either the early return (no notification port / channel,
\* no executor) or the reasoning call starts
FireStart(id, early) ==
    /\ fire_tasks[id].created > 0
    /\ MarkRunBody(id, TRUE)
    /\ IF early
       THEN /\ fire_tasks' = [fire_tasks EXCEPT ![id].created = @ - 1]
            /\ in_flight' = AfterFireEnds(id)
       ELSE /\ fire_tasks' = [fire_tasks EXCEPT ![id].created = @ - 1,
                                                ![id].executing = @ + 1]
            /\ in_flight' = in_flight \cup {id}
    /\ UNCHANGED <<now, next_alarm_id>>
    /\ UNCHANGED restOfAlarm

\* executor.execute returns the response or raises
FireExecReturn(id, res) ==
    /\ fire_tasks[id].executing > 0
    /\ IF res = "ok"
       THEN /\ fire_tasks' = [fire_tasks EXCEPT ![id].executing = @ - 1,
                                                ![id].sending = @ + 1]
            /\ UNCHANGED in_flight
       ELSE /\ fire_tasks' = [fire_tasks EXCEPT ![id].executing = @ - 1]
            /\ in_flight' = AfterFireEnds(id)
    /\ UNCHANGED <<now, alarms, alarm_store, next_alarm_id>>
    /\ UNCHANGED restOfAlarm

\* notification.send returns or raises; a once alarm is removed after a
\* completed send; finally the id leaves the in-flight set
FireSendReturn(id, res) ==
    /\ fire_tasks[id].sending > 0
    /\ fire_tasks' = [fire_tasks EXCEPT ![id].sending = @ - 1]
    /\ in_flight' = AfterFireEnds(id)
    /\ IF OnceCompleted(id, res)
       THEN RemoveAlarmBody(id, TRUE)
       ELSE UNCHANGED <<alarms, alarm_store>>
    /\ UNCHANGED <<now, next_alarm_id>>
    /\ UNCHANGED restOfAlarm

\* the fire task is cancelled while it awaits executor.execute or a send:
\* CancelledError passes "except Exception" and the finally block runs
FireCancelled(id, stage) ==
    /\ fire_tasks[id][stage] > 0
    /\ fire_tasks' = [fire_tasks EXCEPT ![id][stage] = @ - 1]
    /\ in_flight' = AfterFireEnds(id)
    /\ UNCHANGED <<now, alarms, alarm_store, next_alarm_id>>
    /\ UNCHANGED restOfAlarm

\* entries found in the store at construction (_load): none, or one entry
\* written by an earlier run
StoredDisabled ==
    [Entry(1, ParseSchedule(Sched("daily", 9, 0, "")), "UTC", <<>>)
       EXCEPT !.enabled = FALSE]

InitAlarm ==
    /\ now = 0
    /\ \/ alarm_store = <<>> /\ next_alarm_id = 1
       \/ alarm_store = <<StoredDisabled>> /\ next_alarm_id = 2
    /\ alarms = Load(alarm_store)
    /\ fire_tasks = [id \in AlarmIds |-> NoTasks]
    /\ in_flight = {}

\* the approval side at rest
ApprovalIdle ==
    /\ require_manual_approval = TRUE
    /\ queue = <<>>
    /\ file_lock = None
    /\ next_id = 1
    /\ pc = [p \in Procs |-> "idle"]
    /\ call = [p \in Procs |-> NoCall]
    /\ ret = [p \in Procs |-> NoRet]
    /\ client_calls = [i \in 1..MaxRecs |-> 0]
    /\ direct_posts = 0

InitAlarmSpec ==
    InitAlarm /\ ApprovalIdle /\ SchedulerIdle /\ UsageIdle
      /\ BrainIdle /\ ChannelIdle
      /\ HistoryIdle /\ RespondIdle /\ ReplyIdle

SendResults == {"ok", "raise"}

NextAlarm ==
    \/ Tick
    \/ \E inp \in AlarmInputs : AddAlarm(inp[1], inp[2])
    \/ \E id \in AlarmIds : RemoveAlarm(id)
    \/ Poll
    \/ \E id \in AlarmIds, early \in BOOLEAN : FireStart(id, early)
    \/ \E id \in AlarmIds, res \in SendResults : FireExecReturn(id, res)
    \/ \E id \in AlarmIds, res \in SendResults : FireSendReturn(id, res)
    \/ \E id \in AlarmIds, stage \in {"executing", "sending"} :
          FireCancelled(id, stage)

SpecAlarm == InitAlarmSpec /\ [][NextAlarm]_vars

(***************************************************************************)
(* The AlarmScheduler on its own: calls of its public methods on one       *)
(* store, and a restart that loads the store again.                        *)
(***************************************************************************)
\* schedule strings and zones given to add_alarm: the six supported forms,
\* and strings that are out of range, too short or of no supported form
SchedulerInputs ==
    AlarmInputs \cup
    {<<Sched("weekday", 18, 30, ""), "UTC">>,
     <<Sched("once", 30, 0, "m"), "Asia/Seoul">>,
     <<Sched("daily", 24, 0, ""), "UTC">>,
     <<Sched("weekday", 9, 60, ""), "UTC">>,
     <<Sched("once", 0, 0, "h"), "UTC">>,
     <<Sched("once", 9, 0, "m"), "UTC">>,
     <<Sched("every", 10, 0, "m"), "UTC">>}

\* ids given to remove_alarm and mark_run: the first id, and the id of the
\* entry that fills the scheduler
SchedulerIds == {1, MaxAlarmsPerBot}

\* a store written by an earlier run: n entries with ids 1..n
StoredEntries(n) ==
    [i \in 1..n |->
       Entry(i, ParseSchedule(Sched("daily", 9, 0, "")), "UTC", <<>>)]

\* a store edited by hand: an object without alarm_id, and one without tz
EditedStore ==
    <<[StoredDisabled EXCEPT !.alarm_id = Null],
      [StoredDisabled EXCEPT !.tz = None, !.enabled = TRUE]>>

InitialStores ==
    {<<>>, EditedStore, StoredEntries(MaxAlarmsPerBot - 1),
     StoredEntries(MaxAlarmsPerBot)}

RECURSIVE MaxOf(_)
MaxOf(ids) ==
    IF ids = {} THEN 0
    ELSE LET i == CHOOSE x \in ids : TRUE
             m == MaxOf(ids \ {i})
         IN  IF i > m THEN i ELSE m

\* AlarmScheduler.__init__ on an existing store
InitScheduler ==
    /\ now = 0
    /\ alarm_store \in InitialStores
    /\ alarms = Load(alarm_store)
    /\ next_alarm_id = MaxOf(DOMAIN alarms) + 1
    /\ fire_tasks = [id \in AlarmIds |-> NoTasks]
    /\ in_flight = {}

SchedulerAddAlarm(s, tz, saved) ==
    /\ sched_calls < MaxCalls
    /\ AddAlarmBody(s, tz, saved)
    /\ sched_call' = [op |-> "add_alarm", s |-> s, tz |-> tz, id |-> 0]
    /\ sched_ret' = LET err == AddAlarmError(alarms, s, tz) IN
                    [error |-> err,
                     id |-> IF err = None THEN next_alarm_id ELSE 0,
                     found |-> FALSE]
    /\ sched_calls' = sched_calls + 1
    /\ UNCHANGED <<now, fire_tasks, in_flight>>
    /\ UNCHANGED restOfScheduler

SchedulerRemoveAlarm(alarm_id, saved) ==
    /\ sched_calls < MaxCalls
    /\ RemoveAlarmBody(alarm_id, saved)
    /\ sched_call' = [NoSchedCall EXCEPT !.op = "remove_alarm",
                                         !.id = alarm_id]
    /\ sched_ret' = [NoSchedRet EXCEPT !.found = alarm_id \in DOMAIN alarms]
    /\ sched_calls' = sched_calls + 1
    /\ UNCHANGED <<now, next_alarm_id, fire_tasks, in_flight>>
    /\ UNCHANGED restOfScheduler

SchedulerMarkRun(alarm_id, saved) ==
    /\ sched_calls < MaxCalls
    /\ MarkRunBody(alarm_id, saved)
    /\ sched_call' = [NoSchedCall EXCEPT !.op = "mark_run", !.id = alarm_id]
    /\ sched_ret' = NoSchedRet
    /\ sched_calls' = sched_calls + 1
    /\ UNCHANGED <<now, next_alarm_id, fire_tasks, in_flight>>
    /\ UNCHANGED restOfScheduler

\* the process starts again: a fresh AlarmScheduler loads the store
SchedulerRestart ==
    /\ sched_calls < MaxCalls
    /\ alarms' = Load(alarm_store)
    /\ sched_call' = [NoSchedCall EXCEPT !.op = "_load"]
    /\ sched_ret' = NoSchedRet
    /\ sched_calls' = sched_calls + 1
    /\ UNCHANGED <<now, alarm_store, next_alarm_id, fire_tasks, in_flight>>
    /\ UNCHANGED restOfScheduler

InitSchedulerSpec ==
    InitScheduler /\ ApprovalIdle /\ SchedulerIdle /\ UsageIdle /\ BrainIdle
      /\ ChannelIdle /\ HistoryIdle /\ RespondIdle /\ ReplyIdle

NextScheduler ==
    \/ \E inp \in SchedulerInputs, saved \in BOOLEAN :
          SchedulerAddAlarm(inp[1], inp[2], saved)
    \/ \E id \in SchedulerIds, saved \in BOOLEAN :
          SchedulerRemoveAlarm(id, saved)
    \/ \E id \in SchedulerIds, saved \in BOOLEAN :
          SchedulerMarkRun(id, saved)
    \/ SchedulerRestart

SpecScheduler == InitSchedulerSpec /\ [][NextScheduler]_vars

(***************************************************************************)
(* The usage tracker (src/src/usage.py).  Time is in seconds.              *)
(***************************************************************************)
\* the windows of check_limits
MinuteSeconds == 60
HourSeconds == 3600
DaySeconds == 86400

\* how far the clock is seen to advance between two calls of the tracker
ClockSteps == {MinuteSeconds, HourSeconds, DaySeconds}

\* configurations of CONFIG["usage_limits"]
Limits(perMinute, perHour, perDay, interval, paused) ==
    [max_calls_per_minute |-> perMinute, max_calls_per_hour |-> perHour,
     max_calls_per_day |-> perDay, min_call_interval_seconds |-> interval,
     paused |-> paused]

UsageConfigs ==
    {Limits(2, 3, 4, 0, FALSE), Limits(2, 2, 2, 0, FALSE),
     Limits(1, 2, 3, 1, FALSE), Limits(1, 1, 1, 1, TRUE)}

\* _calls_since(seconds): timestamps later than the cutoff now - seconds
CallsSince(calls, seconds, t) ==
    Cardinality({i \in 1..Len(calls) : calls[i] > t - seconds})

\* the comparison of a window's count with its limit
LimitReached_over(count, limit) == count > limit

LimitReached(count, limit) == count >= limit

\* check_limits: the limit whose UsageLimitExceeded is raised, or "ok"
CheckLimits_countsFirst(limits, calls, t) ==
    IF LimitReached(CallsSince(calls, MinuteSeconds, t),
                    limits.max_calls_per_minute)
    THEN "minute"
    ELSE IF LimitReached(CallsSince(calls, HourSeconds, t),
                         limits.max_calls_per_hour)
    THEN "hour"
    ELSE IF LimitReached(CallsSince(calls, DaySeconds, t),
                         limits.max_calls_per_day)
    THEN "day"
    ELSE IF limits.paused THEN "paused"
    ELSE IF Len(calls) > 0
            /\ t - calls[Len(calls)] < limits.min_call_interval_seconds
    THEN "cooldown"
    ELSE "ok"

CheckLimits(limits, calls, t) ==
    IF limits.paused THEN "paused"
    ELSE IF Len(calls) > 0
            /\ t - calls[Len(calls)] < limits.min_call_interval_seconds
    THEN "cooldown"
    ELSE IF LimitReached(CallsSince(calls, MinuteSeconds, t),
                         limits.max_calls_per_minute)
    THEN "minute"
    ELSE IF LimitReached(CallsSince(calls, HourSeconds, t),
                         limits.max_calls_per_hour)
    THEN "hour"
    ELSE IF LimitReached(CallsSince(calls, DaySeconds, t),
                         limits.max_calls_per_day)
    THEN "day"
    ELSE "ok"

\* _cleanup_old_calls: keeps the timestamps of the last 24 hours
CleanupOldCalls_keepsAll(calls, t) == calls

CleanupOldCalls(calls, t) ==
    SelectSeq(calls, LAMBDA ts : ts > t - DaySeconds)

\* the clock is read later
UsageTick(d) ==
    /\ usage_ticks < MaxUsageTicks
    /\ usage_clock' = usage_clock + d
    /\ usage_ticks' = usage_ticks + 1
    /\ usage_ret' = None
    /\ usage_status' = <<>>
    /\ UNCHANGED <<usage_limits, usage_calls, total_calls, usage_file,
                   exec_pc>>
    /\ UNCHANGED restOfUsage

\* check_limits()
UsageCheckLimits ==
    /\ usage_ret' = CheckLimits(usage_limits, usage_calls, usage_clock)
    /\ usage_status' = <<>>
    /\ UNCHANGED <<usage_limits, usage_calls, total_calls, usage_file,
                   usage_clock, usage_ticks, exec_pc>>
    /\ UNCHANGED restOfUsage

\* the file after record_call: _cleanup_old_calls writes the cleaned list
\* with the old count, record_call then writes the new data; a failed write
\* is printed and the file stays as it was
FileAfterRecord(cleanSaved, saved) ==
    IF saved
    THEN [calls |-> usage_calls', total_calls |-> total_calls']
    ELSE IF cleanSaved
    THEN [calls |-> CleanupOldCalls(usage_calls, usage_clock),
          total_calls |-> total_calls]
    ELSE usage_file

\* record_call(): cleanup, append, count, _save
UsageRecordCall(cleanSaved, saved) ==
    /\ total_calls < MaxUsageCalls
    /\ usage_calls' = Append(CleanupOldCalls(usage_calls, usage_clock),
                             usage_clock)
    /\ total_calls' = total_calls + 1
    /\ usage_file' = FileAfterRecord(cleanSaved, saved)
    /\ usage_ret' = None
    /\ usage_status' = <<>>
    /\ UNCHANGED <<usage_limits, usage_clock, usage_ticks, exec_pc>>
    /\ UNCHANGED restOfUsage

\* UsageTracker.__init__ without a usage file, under one configuration
InitUsage ==
    /\ usage_limits \in UsageConfigs
    /\ usage_calls = NoUsage.calls
    /\ total_calls = NoUsage.total_calls
    /\ usage_file = NoUsage
    /\ usage_clock = 0
    /\ usage_ticks = 0
    /\ exec_pc = [p \in Procs |-> "idle"]
    /\ usage_ret = None
    /\ usage_status = <<>>

InitUsageSpec ==
    InitUsage /\ ApprovalIdle /\ AlarmIdle /\ SchedulerIdle /\ ChannelIdle
      /\ HistoryIdle /\ RespondIdle /\ ReplyIdle
      /\ BrainIdle

NextUsage ==
    \/ \E d \in ClockSteps : UsageTick(d)
    \/ UsageCheckLimits
    \/ \E cleanSaved \in BOOLEAN, saved \in BOOLEAN :
          UsageRecordCall(cleanSaved, saved)

SpecUsage == InitUsageSpec /\ [][NextUsage]_vars

(***************************************************************************)
(* ClaudeExecutor.execute: tasks that share one UsageTracker.  A task runs *)
(* without interruption up to its next await, so check_limits is one step, *)
(* the awaited subprocess lets the other tasks run, and record_call is     *)
(* part of the step in which the subprocess has returned.                  *)
(***************************************************************************)
\* how far the clock is seen to advance while calls are under way
ExecuteClockSteps == {MinuteSeconds, DaySeconds}

\* record_call(): what the tracker holds after it
RecordCall(calls, t) == Append(CleanupOldCalls(calls, t), t)

\* execute up to "await asyncio.wait_for(_run_subprocess(args), ...)":
\* check_limits raises, or the subprocess is started
ExecuteCheck(p) ==
    /\ exec_pc[p] = "idle"
    /\ usage_ret' = CheckLimits(usage_limits, usage_calls, usage_clock)
    /\ usage_status' = <<>>
    /\ exec_pc' = [exec_pc EXCEPT ![p] = IF usage_ret' = "ok"
                                         THEN "running"
                                         ELSE "refused"]
    /\ UNCHANGED <<usage_limits, usage_calls, total_calls, usage_file,
                   usage_clock, usage_ticks>>
    /\ UNCHANGED restOfUsage

\* the subprocess has returned: record_call on exit code 0 (get_warning
\* follows it and its text is printed), an exception otherwise (a timeout
\* is an exception as well)
ExecuteReturn(p, succeeded, cleanSaved, saved) ==
    /\ exec_pc[p] = "running"
    /\ total_calls < MaxUsageCalls
    /\ IF succeeded
       THEN /\ usage_calls' = RecordCall(usage_calls, usage_clock)
            /\ total_calls' = total_calls + 1
            /\ usage_file' = FileAfterRecord(cleanSaved, saved)
            /\ exec_pc' = [exec_pc EXCEPT ![p] = "done"]
       ELSE /\ exec_pc' = [exec_pc EXCEPT ![p] = "failed"]
            /\ UNCHANGED <<usage_calls, total_calls, usage_file>>
    /\ usage_ret' = None
    /\ usage_status' = <<>>
    /\ UNCHANGED <<usage_limits, usage_clock, usage_ticks>>
    /\ UNCHANGED restOfUsage

\* the task's caller has the result; the task makes its next call
ExecuteAgain(p) ==
    /\ exec_pc[p] \in {"refused", "done", "failed"}
    /\ exec_pc' = [exec_pc EXCEPT ![p] = "idle"]
    /\ usage_ret' = None
    /\ usage_status' = <<>>
    /\ UNCHANGED <<usage_limits, usage_calls, total_calls, usage_file,
                   usage_clock, usage_ticks>>
    /\ UNCHANGED restOfUsage

\* CONFIG["usage_limits"]["warning_threshold_pct"]
WarningThresholdPct == 80

\* get_status(): the /status endpoint reads the tracker
GetStatus ==
    [calls_today |-> CallsSince(usage_calls, DaySeconds, usage_clock),
     calls_this_hour |-> CallsSince(usage_calls, HourSeconds, usage_clock),
     calls_this_minute |-> CallsSince(usage_calls, MinuteSeconds,
                                      usage_clock),
     paused |-> usage_limits.paused,
     total_calls_all_time |-> total_calls]

\* get_warning(): whether a warning text is returned (the comparison
\* per_day >= max * pct / 100, kept in integers)
GetWarning ==
    [warning |->
       CallsSince(usage_calls, DaySeconds, usage_clock) * 100
         >= usage_limits.max_calls_per_day * WarningThresholdPct]

\* get_status() or get_warning() is called between two steps of the tasks
UsageRead(value) ==
    /\ usage_status' = <<value>>
    /\ usage_ret' = None
    /\ UNCHANGED <<usage_limits, usage_calls, total_calls, usage_file,
                   usage_clock, usage_ticks, exec_pc>>
    /\ UNCHANGED restOfUsage

InitExecuteSpec == InitUsageSpec

NextExecute ==
    \/ \E d \in ExecuteClockSteps : UsageTick(d)
    \/ \E p \in Procs : ExecuteCheck(p)
    \/ \E p \in Procs, succeeded \in BOOLEAN, cleanSaved \in BOOLEAN,
          saved \in BOOLEAN :
          ExecuteReturn(p, succeeded, cleanSaved, saved)
    \/ \E p \in Procs : ExecuteAgain(p)
    \/ UsageRead(GetStatus)
    \/ UsageRead(GetWarning)

SpecExecute == InitExecuteSpec /\ [][NextExecute]_vars

(***************************************************************************)
(* Inbound messages and reply cycles.  discord.py runs every on_message    *)
(* call as a task of its own, so handlers of several messages interleave   *)
(* at their awaits.  Two classes handle messages: BaseMarketingBot ("bot") *)
(* and DiscordBotAdapter with AgentBrain ("adapter").                      *)
(***************************************************************************)
\* _max_bot_chain
MaxBotChain == 3

\* first words of the commands
Commands == {"!cancel", "!cancel all", "!clear", "!alarms", "!help"}

\* inbound messages of other authors; cmd is the command the text starts
\* with, None for ordinary text; being addressed plays no part in the 1:1
\* channel
Messages ==
    {msg \in [channel : ChannelIds, is_bot : BOOLEAN, is_mention : BOOLEAN,
              cmd : Commands \cup {None}] :
        msg.channel = "own" => ~msg.is_mention}

IsBaseBot == reply_path = "bot"

\* AgentBrain.should_respond (the agent is active)
ShouldRespond(msg) ==
    IF msg.is_bot
    THEN IF suppress_bot_replies THEN FALSE
         ELSE msg.channel \in TeamChannelIds /\ msg.is_mention
    ELSE IF msg.channel = "own" THEN TRUE
    ELSE msg.channel \in TeamChannelIds /\ msg.is_mention

\* AgentBrain.is_command: the first word decides
IsCommand(msg) ==
    IF msg.cmd = "!cancel all" THEN "!cancel" ELSE msg.cmd

\* the chain test of BaseMarketingBot.on_message (line 212)
ChainLimitReached(chain) == chain >= MaxBotChain

\* the chain test of DiscordBotAdapter.on_message (line 114)
ChainLimitExceeded_late(chain) == chain > MaxBotChain + 1

ChainLimitExceeded(chain) == chain > MaxBotChain

\* the id of a new reasoning task
FreeTaskId == CHOOSE i \in 1..MaxCycles : \A t \in cycles : t.id # i

\* the observer's count: a human message starts a new count in its channel,
\* an answered agent-authored message adds one
Counted(msg, answered) ==
    bot_replies' = [bot_replies EXCEPT ![msg.channel] =
                      IF ~msg.is_bot THEN 0
                      ELSE IF answered THEN @ + 1 ELSE @]

\* _respond up to the await of the reasoning task: the task is made and, in
\* BaseMarketingBot, put into _active_tasks in place of any earlier entry
StartCycle(msg) ==
    /\ Cardinality(cycles) < MaxCycles
    /\ cycles' = cycles \cup {[id |-> FreeTaskId, channel |-> msg.channel,
                                cancelled |-> FALSE]}
    /\ active_tasks' = IF IsBaseBot
                       THEN [active_tasks EXCEPT ![msg.channel] = FreeTaskId]
                       ELSE active_tasks
    /\ Counted(msg, TRUE)

\* the handler returns without starting a reasoning task
NoCycle(msg, answered) ==
    /\ Counted(msg, answered)
    /\ UNCHANGED <<cycles, active_tasks>>

\* task.cancel() on the tasks with the given ids
CancelTasks(ids) ==
    cycles' = {IF t.id \in ids THEN [t EXCEPT !.cancelled = TRUE] ELSE t :
               t \in cycles}

\* BaseMarketingBot._handle_cancel with _cancel_own_tasks
HandleCancel(msg) ==
    IF msg.cmd = "!cancel all"
    THEN /\ CancelTasks({active_tasks[c] : c \in ChannelIds})
         /\ suppress_bot_replies' = TRUE
    ELSE IF active_tasks[msg.channel] # 0
    THEN /\ CancelTasks({active_tasks[msg.channel]})
         /\ suppress_bot_replies' = TRUE
    ELSE UNCHANGED <<cycles, suppress_bot_replies>>

\* the command dispatch of BaseMarketingBot.on_message returns for this
\* message of a human author (lines 158-203)
BotDispatches(msg) ==
    LET own == msg.channel = "own"
        team == msg.channel \in TeamChannelIds
    IN  CASE msg.cmd \in {"!cancel", "!cancel all"} -> TRUE
          [] msg.cmd = "!alarms" -> own \/ (team /\ msg.is_mention)
          [] msg.cmd = "!help" ->
                own \/ (team /\ msg.is_mention)
          [] msg.cmd = "!clear" -> TRUE
          [] OTHER -> FALSE

\* the dispatched command; !alarms, !help and !clear change none of the
\* state followed here
BotCommand(msg) ==
    /\ IF /\ msg.cmd \in {"!cancel", "!cancel all"}
          /\ \/ msg.channel = "own"
             \/ msg.cmd = "!cancel all"
             \/ msg.is_mention
       THEN HandleCancel(msg)
       ELSE UNCHANGED <<cycles, suppress_bot_replies>>
    /\ Counted(msg, FALSE)
    /\ UNCHANGED <<bot_chain_count, active_tasks>>

\* BaseMarketingBot.on_message
BotOnMessage(msg) ==
    IF ~msg.is_bot /\ BotDispatches(msg)
    THEN BotCommand(msg)
    ELSE IF msg.is_bot
    THEN IF suppress_bot_replies
         THEN NoCycle(msg, FALSE) /\ UNCHANGED <<bot_chain_count,
                                                 suppress_bot_replies>>
         ELSE IF msg.channel \in TeamChannelIds /\ msg.is_mention
         THEN IF ChainLimitReached(bot_chain_count[msg.channel])
              THEN NoCycle(msg, FALSE) /\ UNCHANGED <<bot_chain_count,
                                                      suppress_bot_replies>>
              ELSE /\ bot_chain_count' =
                        [bot_chain_count EXCEPT ![msg.channel] = @ + 1]
                   /\ UNCHANGED suppress_bot_replies
                   /\ StartCycle(msg)
         ELSE NoCycle(msg, FALSE) /\ UNCHANGED <<bot_chain_count,
                                                 suppress_bot_replies>>
    ELSE /\ suppress_bot_replies' = FALSE
         /\ bot_chain_count' =
              IF msg.channel \in TeamChannelIds
              THEN [bot_chain_count EXCEPT ![msg.channel] = 0]
              ELSE bot_chain_count
         /\ IF \/ msg.channel = "own"
               \/ msg.channel \in TeamChannelIds /\ msg.is_mention
            THEN StartCycle(msg)
            ELSE NoCycle(msg, FALSE)

\* DiscordBotAdapter._handle_command after the chain control has set the
\* suppression flag to suppressed; cancel_own_tasks finds no task, nothing
\* is ever put into AgentBrain._active_tasks
AdapterCommand(msg, suppressed) ==
    /\ suppress_bot_replies' =
          IF IsCommand(msg) = "!cancel" THEN TRUE ELSE suppressed
    /\ NoCycle(msg, IsCommand(msg) \in {"!alarms", "!help"})

\* DiscordBotAdapter.on_message
AdapterOnMessage(msg) ==
    IF ~ShouldRespond(msg)
    THEN /\ IF msg.is_bot
            THEN UNCHANGED <<bot_chain_count, suppress_bot_replies>>
            ELSE /\ suppress_bot_replies' = FALSE
                 /\ bot_chain_count' =
                      [bot_chain_count EXCEPT ![msg.channel] = 0]
         /\ NoCycle(msg, FALSE)
    ELSE IF msg.is_bot
    THEN /\ bot_chain_count[msg.channel] < MaxChainCount
         /\ bot_chain_count' =
              [bot_chain_count EXCEPT ![msg.channel] = @ + 1]
         /\ IF ChainLimitExceeded(bot_chain_count'[msg.channel])
            THEN suppress_bot_replies' = TRUE /\ NoCycle(msg, FALSE)
            ELSE IF IsCommand(msg) # None
            THEN AdapterCommand(msg, suppress_bot_replies)
            ELSE UNCHANGED suppress_bot_replies /\ StartCycle(msg)
    ELSE /\ bot_chain_count' = [bot_chain_count EXCEPT ![msg.channel] = 0]
         /\ IF IsCommand(msg) # None
            THEN AdapterCommand(msg, FALSE)
            ELSE suppress_bot_replies' = FALSE /\ StartCycle(msg)

\* on_message up to its first await
OnMessage(msg) ==
    /\ IF IsBaseBot THEN BotOnMessage(msg) ELSE AdapterOnMessage(msg)
    /\ UNCHANGED reply_path
    /\ UNCHANGED restOfChannel

\* the finally block of BaseMarketingBot._respond without the identity test
Cleanup_always(t) == [active_tasks EXCEPT ![t.channel] = 0]

\* the finally block of BaseMarketingBot._respond: the channel's entry is
\* removed if it still is this task
Cleanup(t) ==
    IF active_tasks[t.channel] = t.id
    THEN [active_tasks EXCEPT ![t.channel] = 0]
    ELSE active_tasks

\* the reasoning task ends (returns, raises or is cancelled)
CycleEnd(t) ==
    /\ t \in cycles
    /\ cycles' = cycles \ {t}
    /\ active_tasks' = IF IsBaseBot THEN Cleanup(t) ELSE active_tasks
    /\ UNCHANGED <<reply_path, bot_chain_count, suppress_bot_replies,
                   bot_replies>>
    /\ UNCHANGED restOfChannel

AllCycles ==
    [id : 1..MaxCycles, channel : ChannelIds, cancelled : BOOLEAN]

InitChannel ==
    /\ reply_path \in {"bot", "adapter"}
    /\ bot_chain_count = [c \in ChannelIds |-> 0]
    /\ suppress_bot_replies = FALSE
    /\ active_tasks = [c \in ChannelIds |-> 0]
    /\ cycles = {}
    /\ bot_replies = [c \in ChannelIds |-> 0]

InitChannelSpec ==
    InitChannel /\ ApprovalIdle /\ AlarmIdle /\ SchedulerIdle /\ UsageIdle
      /\ BrainIdle
      /\ HistoryIdle /\ RespondIdle /\ ReplyIdle

NextChannel ==
    \/ \E msg \in Messages : OnMessage(msg)
    \/ \E t \in AllCycles : CycleEnd(t)

SpecChannel == InitChannelSpec /\ [][NextChannel]_vars

(***************************************************************************)
(* Conversation history of AgentBrain: an OrderedDict from channel id to   *)
(* the channel's log.  The log is followed by its length.                  *)
(***************************************************************************)
\* channel ids seen by the history: more than the cap
HistoryChannels == 1..(MAX_CHANNELS + 2)

HistoryKeys(h) == {h[i].channel : i \in 1..Len(h)}

\* OrderedDict lookup: the log length of channel c
LogOf(h, c) ==
    LET i == CHOOSE i \in 1..Len(h) : h[i].channel = c IN h[i].len

\* OrderedDict.move_to_end(c)
MoveToEnd(h, c) ==
    LET i == CHOOSE i \in 1..Len(h) : h[i].channel = c
    IN  SubSeq(h, 1, i - 1) \o SubSeq(h, i + 1, Len(h)) \o <<h[i]>>

\* OrderedDict.__setitem__: an existing key keeps its place, a new key goes
\* to the end
SetItem(h, c, n) ==
    IF c \in HistoryKeys(h)
    THEN [i \in 1..Len(h) |->
            IF h[i].channel = c THEN [channel |-> c, len |-> n] ELSE h[i]]
    ELSE Append(h, [channel |-> c, len |-> n])

\* while len(...) > _MAX_CHANNELS: popitem(last=False)
RECURSIVE EvictOldest(_)
EvictOldest(h) ==
    IF Len(h) > MAX_CHANNELS THEN EvictOldest(Tail(h)) ELSE h

\* the part of build_context that touches the history
BuildContext(c) ==
    /\ channel_history' =
          IF c \in HistoryKeys(channel_history)
          THEN MoveToEnd(channel_history, c)
          ELSE EvictOldest(SetItem(channel_history, c, 0))
    /\ UNCHANGED restOfHistory

\* the log length after one more exchange, trimmed to the last
\* 2 * _max_history entries
Trimmed(n) == IF n > MaxHistory * 2 THEN MaxHistory * 2 ELSE n

\* save_to_history
SaveToHistory(c) ==
    /\ LET history == IF c \in HistoryKeys(channel_history)
                      THEN LogOf(channel_history, c) ELSE 0
       IN  channel_history' =
               SetItem(channel_history, c, Trimmed(history + 2))
    /\ UNCHANGED restOfHistory

\* clear_history
ClearHistory ==
    /\ channel_history' = <<>>
    /\ UNCHANGED restOfHistory

InitHistorySpec ==
    /\ channel_history = <<>>
    /\ ApprovalIdle /\ AlarmIdle /\ SchedulerIdle /\ UsageIdle
    /\ BrainIdle /\ ChannelIdle
    /\ RespondIdle /\ ReplyIdle

NextHistory ==
    \/ \E c \in HistoryChannels : BuildContext(c)
    \/ \E c \in HistoryChannels : SaveToHistory(c)
    \/ ClearHistory

SpecHistory == InitHistorySpec /\ [][NextHistory]_vars

(***************************************************************************)
(* AgentBrain.should_respond, with the methods that change what it reads.  *)
(***************************************************************************)
\* IncomingMessage: the fields should_respond reads
Incoming ==
    [is_bot : BOOLEAN, is_mention : BOOLEAN, is_team_channel : BOOLEAN,
     is_own_channel : BOOLEAN]

should_respond_unsuppressed(active, suppress, msg) ==
    IF ~active THEN FALSE
    ELSE IF msg.is_bot THEN msg.is_team_channel /\ msg.is_mention
    ELSE IF msg.is_own_channel THEN TRUE
    ELSE msg.is_team_channel /\ msg.is_mention

\* AgentBrain.should_respond
should_respond(active, suppress, msg) ==
    IF ~active THEN FALSE
    ELSE IF msg.is_bot
    THEN IF suppress THEN FALSE
         ELSE msg.is_team_channel /\ msg.is_mention
    ELSE IF msg.is_own_channel THEN TRUE
    ELSE IF msg.is_team_channel /\ msg.is_mention THEN TRUE
    ELSE FALSE

\* a call of should_respond
ShouldRespondCall(msg) ==
    /\ respond_call' = <<msg>>
    /\ respond_ret' =
          <<should_respond(agent_active, suppress_bot_replies, msg)>>
    /\ UNCHANGED <<agent_active, channelVars>>
    /\ UNCHANGED restOfRespond

\* the active setter
SetActive(value) ==
    /\ agent_active' = value
    /\ respond_call' = <<>>
    /\ respond_ret' = <<>>
    /\ UNCHANGED channelVars
    /\ UNCHANGED restOfRespond

\* increment_chain
IncrementChain(c) ==
    /\ bot_chain_count[c] < MaxChainCount
    /\ bot_chain_count' = [bot_chain_count EXCEPT ![c] = @ + 1]
    /\ respond_call' = <<>>
    /\ respond_ret' = <<>>
    /\ UNCHANGED <<agent_active, reply_path, suppress_bot_replies,
                   active_tasks, cycles, bot_replies>>
    /\ UNCHANGED restOfRespond

\* reset_chain
ResetChain(c) ==
    /\ suppress_bot_replies' = FALSE
    /\ bot_chain_count' = [bot_chain_count EXCEPT ![c] = 0]
    /\ respond_call' = <<>>
    /\ respond_ret' = <<>>
    /\ UNCHANGED <<agent_active, reply_path, active_tasks, cycles,
                   bot_replies>>
    /\ UNCHANGED restOfRespond

\* the adapter's self._brain._suppress_bot_replies = True
SuppressBotReplies ==
    /\ suppress_bot_replies' = TRUE
    /\ respond_call' = <<>>
    /\ respond_ret' = <<>>
    /\ UNCHANGED <<agent_active, reply_path, bot_chain_count, active_tasks,
                   cycles, bot_replies>>
    /\ UNCHANGED restOfRespond

InitRespondSpec ==
    /\ agent_active = TRUE
    /\ respond_call = <<>>
    /\ respond_ret = <<>>
    /\ ChannelIdle /\ HistoryIdle /\ ReplyIdle
    /\ ApprovalIdle /\ AlarmIdle /\ SchedulerIdle /\ UsageIdle /\ BrainIdle

NextRespond ==
    \/ \E msg \in Incoming : ShouldRespondCall(msg)
    \/ \E value \in BOOLEAN : SetActive(value)
    \/ \E c \in ChannelIds : IncrementChain(c)
    \/ \E c \in ChannelIds : ResetChain(c)
    \/ SuppressBotReplies

SpecRespond == InitRespondSpec /\ [][NextRespond]_vars

(***************************************************************************)
(* The cycle of one message in _respond: the reasoning task, then the      *)
(* reply text and the action blocks of the reasoning reply.                *)
(***************************************************************************)
\* MAX_ACTIONS_PER_MESSAGE
MAX_ACTIONS_PER_MESSAGE == 2

\* action codes in a reply: a platform action and an alarm action
ReplyCodes == {"POST_X", "SET_ALARM"}

\* reasoning replies: whether there is text outside the action blocks, and
\* the codes of the action blocks in textual order
Responses ==
    [text : BOOLEAN,
     blocks : UNION {[1..n -> ReplyCodes] : n \in 0..MaxBlocks}]

\* parse_actions / ACTION_RE.findall: the blocks in textual order
ParseActions(response) ==
    [i \in 1..Len(response.blocks) |-> <<i, response.blocks[i]>>]

\* BaseMarketingBot._respond, lines 351-355: actions[:2]
CapActions(actions) ==
    IF Len(actions) > MAX_ACTIONS_PER_MESSAGE
    THEN SubSeq(actions, 1, MAX_ACTIONS_PER_MESSAGE)
    ELSE actions

\* messages that reach _respond: humans in the own channel, anyone
\* addressing the agent in a shared channel
ReplyMsgs ==
    {[by_bot |-> FALSE, place |-> "own"], [by_bot |-> FALSE, place |-> "team"],
     [by_bot |-> TRUE, place |-> "team"]}

\* _respond up to the await of the reasoning call
Respond(msg) ==
    /\ reply_pc = "idle"
    /\ reply_pc' = "reasoning"
    /\ reply_msg' = msg
    /\ UNCHANGED <<reply_cancel, reply_todo, reply_executed, reply_sent,
                   reply_saved, reply_raised>>
    /\ UNCHANGED channelVars
    /\ UNCHANGED restOfReply

\* !cancel reaches the cycle's task while it runs (_handle_cancel:
\* task.cancel() and the suppression flag); only BaseMarketingBot keeps the
\* task where a cancel finds it
CancelTask ==
    /\ reply_pc = "reasoning"
    /\ reply_path = "bot"
    /\ ~reply_cancel
    /\ reply_cancel' = TRUE
    /\ suppress_bot_replies' = TRUE
    /\ UNCHANGED <<reply_pc, reply_msg, reply_todo, reply_executed,
                   reply_sent, reply_saved, reply_raised>>
    /\ UNCHANGED <<reply_path, bot_chain_count, active_tasks, cycles,
                   bot_replies>>
    /\ UNCHANGED restOfReply

\* a !cancel that does not reach this cycle's task sets the suppression
\* flag while the task runs
SuppressedMeanwhile ==
    /\ reply_pc = "reasoning"
    /\ ~suppress_bot_replies
    /\ suppress_bot_replies' = TRUE
    /\ UNCHANGED replyVars
    /\ UNCHANGED <<reply_path, bot_chain_count, active_tasks, cycles,
                   bot_replies>>
    /\ UNCHANGED restOfReply

\* the rest of BaseMarketingBot._respond after the reasoning task returned,
\* up to the first action (lines 316-355)
BotTaskReturns(response) ==
    /\ reply_saved' = TRUE
    /\ IF suppress_bot_replies /\ reply_msg.by_bot
       THEN /\ reply_pc' = "done"
            /\ UNCHANGED <<reply_todo, reply_sent>>
       ELSE LET actions == ParseActions(response)
            IN  /\ reply_todo' = CapActions(actions)
                /\ reply_sent' =
                      reply_sent
                        \cup (IF response.text THEN {"text"} ELSE {})
                        \cup (IF Len(actions) > MAX_ACTIONS_PER_MESSAGE
                              THEN {"cap"} ELSE {})
                /\ reply_pc' = IF actions = <<>> THEN "done" ELSE "acting"

\* the rest of DiscordBotAdapter._respond after the reasoning call returned,
\* up to the first action (lines 190-196)
AdapterTaskReturns(response) ==
    LET actions == ParseActions(response)
    IN  /\ reply_todo' = actions
        /\ reply_sent' =
              reply_sent \cup (IF response.text THEN {"text"} ELSE {})
        /\ reply_pc' = IF actions = <<>> THEN "done" ELSE "acting"
        /\ reply_saved' = (actions = <<>>)

\* the reasoning call returns a reply
TaskReturns(response) ==
    /\ reply_pc = "reasoning"
    /\ ~reply_cancel
    /\ IF reply_path = "bot" THEN BotTaskReturns(response)
       ELSE AdapterTaskReturns(response)
    /\ UNCHANGED <<reply_msg, reply_cancel, reply_executed, reply_raised>>
    /\ UNCHANGED channelVars
    /\ UNCHANGED restOfReply

\* the reasoning call raises: BaseMarketingBot reports the error in the
\* channel, the adapter logs it and returns
TaskRaises ==
    /\ reply_pc = "reasoning"
    /\ ~reply_cancel
    /\ reply_pc' = "done"
    /\ reply_sent' = IF reply_path = "bot" THEN reply_sent \cup {"error"}
                     ELSE reply_sent
    /\ UNCHANGED <<reply_msg, reply_cancel, reply_todo, reply_executed,
                   reply_saved, reply_raised>>
    /\ UNCHANGED channelVars
    /\ UNCHANGED restOfReply

\* what _respond sends when "await task" raises CancelledError: the handler
\* of lines 307-309 sends the notice; CancelledError is no Exception, so
\* the handler of line 364 is not the one that runs
CancelledSends_asError == {"error"}

CancelledSends == {"cancelled"}

\* the cancelled reasoning task ends: "await task" raises CancelledError in
\* _respond, which sends the notice and returns
TaskCancelled ==
    /\ reply_pc = "reasoning"
    /\ reply_cancel
    /\ reply_pc' = "done"
    /\ reply_sent' = reply_sent \cup CancelledSends
    /\ UNCHANGED <<reply_msg, reply_cancel, reply_todo, reply_executed,
                   reply_saved, reply_raised>>
    /\ UNCHANGED channelVars
    /\ UNCHANGED restOfReply

\* one turn of the loop over the actions: execute_action returns its result
\* text, which is sent, or raises; the adapter saves the exchange after the
\* last action
RunAction(raises) ==
    /\ reply_pc = "acting"
    /\ reply_todo # <<>>
    /\ reply_executed' = Append(reply_executed, Head(reply_todo))
    /\ IF raises
       THEN /\ reply_pc' = "done"
            /\ reply_todo' = <<>>
            /\ reply_sent' = IF reply_path = "bot"
                             THEN reply_sent \cup {"error"} ELSE reply_sent
            /\ reply_raised' = (reply_path # "bot")
            /\ UNCHANGED reply_saved
       ELSE /\ reply_todo' = Tail(reply_todo)
            /\ reply_pc' = IF Tail(reply_todo) = <<>> THEN "done"
                           ELSE "acting"
            /\ reply_sent' = reply_sent \cup {"result"}
            /\ reply_saved' = IF reply_path = "bot" THEN reply_saved
                              ELSE Tail(reply_todo) = <<>>
            /\ UNCHANGED reply_raised
    /\ UNCHANGED <<reply_msg, reply_cancel>>
    /\ UNCHANGED channelVars
    /\ UNCHANGED restOfReply

InitReplySpec ==
    /\ ReplyIdle
    /\ reply_path \in {"bot", "adapter"}
    /\ bot_chain_count = [c \in ChannelIds |-> 0]
    /\ suppress_bot_replies = FALSE
    /\ active_tasks = [c \in ChannelIds |-> 0]
    /\ cycles = {}
    /\ bot_replies = [c \in ChannelIds |-> 0]
    /\ HistoryIdle /\ RespondIdle
    /\ ApprovalIdle /\ AlarmIdle /\ SchedulerIdle /\ UsageIdle /\ BrainIdle

NextReply ==
    \/ \E msg \in ReplyMsgs : Respond(msg)
    \/ CancelTask
    \/ SuppressedMeanwhile
    \/ \E response \in Responses : TaskReturns(response)
    \/ TaskRaises
    \/ TaskCancelled
    \/ \E raises \in BOOLEAN : RunAction(raises)

SpecReply == InitReplySpec /\ [][NextReply]_vars

(***************************************************************************)
(* Action blocks in texts.  A text is a sequence of pieces: "open" is an   *)
(* opening tag [ACTION:TYPE], "close" is [/ACTION], "openL" and "openR"    *)
(* are the two halves of an opening tag cut inside its type name           *)
(* ("[ACTION:PO" and "ST_X]"), "text" is anything else.  Two halves that   *)
(* stand next to each other are an opening tag.                            *)
(***************************************************************************)
MaxTextLen == 5

Pieces == {"text", "open", "close", "openL", "openR"}

RECURSIVE Join(_)
\* the pieces of a string given as a concatenation of pieces
Join(t) ==
    IF Len(t) < 2 THEN t
    ELSE IF t[1] = "openL" /\ t[2] = "openR"
    THEN <<"open">> \o Join(SubSeq(t, 3, Len(t)))
    ELSE <<t[1]>> \o Join(Tail(t))

Texts ==
    {t \in UNION {[1..n -> Pieces] : n \in 0..MaxTextLen} : Join(t) = t}

\* where the lazy body of ACTION_RE ends for an opening tag at i: the first
\* closing tag after it, 0 when there is none
FirstClose(t, i) ==
    IF \E j \in (i + 1)..Len(t) : t[j] = "close"
    THEN CHOOSE j \in (i + 1)..Len(t) :
            /\ t[j] = "close"
            /\ \A k \in (i + 1)..(j - 1) : t[k] # "close"
    ELSE 0

RECURSIVE FindAll(_, _)
\* ACTION_RE.findall(text): the number of matches, found from left to right
\* without overlap, scanning from piece i
FindAll(t, i) ==
    IF i > Len(t) THEN 0
    ELSE IF t[i] = "open" /\ FirstClose(t, i) # 0
    THEN 1 + FindAll(t, FirstClose(t, i) + 1)
    ELSE FindAll(t, i + 1)

RECURSIVE Sub(_, _)
\* ACTION_RE.sub("", text): the pieces outside the matches
Sub(t, i) ==
    IF i > Len(t) THEN <<>>
    ELSE IF t[i] = "open" /\ FirstClose(t, i) # 0
    THEN Sub(t, FirstClose(t, i) + 1)
    ELSE <<t[i]>> \o Sub(t, i + 1)

\* strip_actions(text), _ACTION_RE.sub("", text).strip(): one pass, the
\* result is the string that is left
StripActions(t) == Join(Sub(t, 1))

\* the text holds an action block
HasActionBlock(t) == FindAll(t, 1) > 0

\* what _respond hands to executor.execute for an inbound text:
\* BaseMarketingBot strips it (line 239), DiscordBotAdapter passes
\* msg.content
InboundSanitize(t) == IF reply_path = "bot" THEN StripActions(t) ELSE t

\* what _fire_alarm hands to executor.execute for the stored prompt
FireSanitize(t) == StripActions(t)

\* the action blocks _respond executes for a reasoning output
ExecutedOf(response) ==
    IF reply_path = "bot"
    THEN IF FindAll(response, 1) > MAX_ACTIONS_PER_MESSAGE
         THEN MAX_ACTIONS_PER_MESSAGE
         ELSE FindAll(response, 1)
    ELSE FindAll(response, 1)

\* the action blocks _fire_alarm executes for a reasoning output: it calls
\* no action executor
FireExecutedOf_parsed(response) == FindAll(response, 1)

FireExecutedOf(response) == 0

\* _respond up to the await of the reasoning call
TextRespond(t) ==
    /\ text_pc = "idle"
    /\ text_pc' = "reasoning"
    /\ text_kind' = "message"
    /\ text_raw' = t
    /\ text_passed' = InboundSanitize(t)
    /\ UNCHANGED text_executed

\* _fire_alarm up to the await of the reasoning call
TextFire(prompt) ==
    /\ text_pc = "idle"
    /\ text_pc' = "reasoning"
    /\ text_kind' = "alarm"
    /\ text_raw' = prompt
    /\ text_passed' = FireSanitize(prompt)
    /\ UNCHANGED text_executed

\* executor.execute runs with the text handed to it; neither text plays a
\* part in what follows
TextCallRuns ==
    /\ text_pc = "reasoning"
    /\ text_pc' = "awaiting"
    /\ text_raw' = <<>>
    /\ text_passed' = <<>>
    /\ UNCHANGED <<text_kind, text_executed>>

\* the reasoning call returns: the output without its action blocks is
\* sent; a message cycle executes the blocks, an alarm firing does not
TextReturns(response) ==
    /\ text_pc = "awaiting"
    /\ text_pc' = "done"
    /\ text_raw' = response
    /\ text_passed' = StripActions(response)
    /\ text_executed' = IF text_kind = "alarm" THEN FireExecutedOf(response)
                        ELSE ExecutedOf(response)
    /\ UNCHANGED text_kind

restOfText ==
    <<approvalVars, alarmVars, schedulerVars, usageVars, channelVars,
      historyVars, respondVars, replyVars, actionVars, hrVars, loopVars>>

InitTextSpec ==
    /\ TextIdle
    /\ ActionIdle /\ HrIdle /\ LoopIdle
    /\ reply_path \in {"bot", "adapter"}
    /\ bot_chain_count = [c \in ChannelIds |-> 0]
    /\ suppress_bot_replies = FALSE
    /\ active_tasks = [c \in ChannelIds |-> 0]
    /\ cycles = {}
    /\ bot_replies = [c \in ChannelIds |-> 0]
    /\ HistoryIdle /\ RespondIdle /\ ReplyIdle
    /\ ApprovalIdle /\ AlarmIdle /\ SchedulerIdle /\ UsageIdle

\* (the texts are drawn only where a step takes one)
NextText ==
    \/ /\ text_pc = "idle"
       /\ \E t \in Texts : TextRespond(t) /\ UNCHANGED restOfText
    \/ /\ text_pc = "idle"
       /\ \E t \in Texts : TextFire(t) /\ UNCHANGED restOfText
    \/ TextCallRuns /\ UNCHANGED restOfText
    \/ /\ text_pc = "awaiting"
       /\ \E t \in Texts : TextReturns(t) /\ UNCHANGED restOfText

SpecText == InitTextSpec /\ [][NextText]_vars

(***************************************************************************)
(* AgentBrain.execute_action as a function of its arguments and of what    *)
(* its collaborators do.                                                   *)
(***************************************************************************)
\* action codes handed to execute_action: those of ACTION_MAP and one that
\* is not in it
ActionCodes == (DOMAIN ACTION_MAP) \cup {"DANCE"}

\* a body, by what the parsers find in it: whether it is the empty string,
\* and which fields parse_alarm_body finds with a non-empty value
ActionBodies ==
    {b \in [empty : BOOLEAN, schedule : BOOLEAN, prompt : BOOLEAN,
            alarm_id : BOOLEAN] :
        b.empty => ~b.schedule /\ ~b.prompt /\ ~b.alarm_id}

\* what a collaborator does when called: it succeeds, reports a failure
\* (a result with success false, a ValueError of add_alarm, an id that
\* remove_alarm does not find) or raises another exception
CollaboratorOutcomes == {"ok", "fail", "raise"}

\* the arguments of one call with its surroundings: channel_id 0 is no
\* message context; has_client says whether self._clients holds the
\* platform's client; instagram is what parse_instagram_body finds
ActionInputs ==
    [action_type : ActionCodes, body : ActionBodies, channel_id : {0, 7},
     has_client : BOOLEAN, require_manual_approval : BOOLEAN,
     instagram : {"ok", "no_caption", "bad_url"},
     collaborator : CollaboratorOutcomes]

\* how a call ends: the text it returns or the exception that leaves it,
\* with what it did on the way
Outcome(text, lookup, enqueue, client) ==
    [raised |-> FALSE, text |-> text, client_lookup |-> lookup,
     enqueue_called |-> enqueue, client_called |-> client]

Raised(lookup, enqueue, client) ==
    [raised |-> TRUE, text |-> None, client_lookup |-> lookup,
     enqueue_called |-> enqueue, client_called |-> client]

\* execute_set_alarm
ExecuteSetAlarm(inp) ==
    IF ~inp.body.schedule THEN Outcome("no_schedule", FALSE, FALSE, FALSE)
    ELSE IF ~inp.body.prompt THEN Outcome("no_prompt", FALSE, FALSE, FALSE)
    ELSE IF inp.collaborator = "ok"
    THEN Outcome("alarm_set", FALSE, FALSE, FALSE)
    ELSE IF inp.collaborator = "fail"
    THEN Outcome("alarm_failed", FALSE, FALSE, FALSE)
    ELSE Raised(FALSE, FALSE, FALSE)

\* execute_cancel_alarm
ExecuteCancelAlarm(inp) ==
    IF ~inp.body.alarm_id /\ inp.body.empty
    THEN Outcome("no_alarm_id", FALSE, FALSE, FALSE)
    ELSE IF inp.collaborator = "ok"
    THEN Outcome("alarm_cancelled", FALSE, FALSE, FALSE)
    ELSE IF inp.collaborator = "fail"
    THEN Outcome("alarm_not_found", FALSE, FALSE, FALSE)
    ELSE Raised(FALSE, FALSE, FALSE)

\* _execute_search
ExecuteSearch(inp) ==
    IF ~inp.has_client THEN Outcome("no_client", TRUE, FALSE, FALSE)
    ELSE IF inp.collaborator = "ok"
    THEN Outcome("search_results", TRUE, FALSE, TRUE)
    ELSE IF inp.collaborator = "fail"
    THEN Outcome("search_failed", TRUE, FALSE, TRUE)
    ELSE Outcome("search_error", TRUE, FALSE, TRUE)

\* execute_action from the client lookup on (lines 337-371): the enqueue
\* is awaited outside the try block, the direct post inside it
PostAction(inp) ==
    IF ~inp.has_client THEN Outcome("no_client", TRUE, FALSE, FALSE)
    ELSE IF ACTION_MAP[inp.action_type][1] = "instagram"
            /\ inp.instagram = "no_caption"
    THEN Outcome("no_caption", TRUE, FALSE, FALSE)
    ELSE IF ACTION_MAP[inp.action_type][1] = "instagram"
            /\ inp.instagram = "bad_url"
    THEN Outcome("bad_image_url", TRUE, FALSE, FALSE)
    ELSE IF inp.require_manual_approval
    THEN IF inp.collaborator = "raise"
         THEN Raised(TRUE, TRUE, FALSE)
         ELSE Outcome("queued", TRUE, TRUE, FALSE)
    ELSE IF inp.collaborator = "ok"
    THEN Outcome("posted", TRUE, FALSE, TRUE)
    ELSE IF inp.collaborator = "fail"
    THEN Outcome("post_failed", TRUE, FALSE, TRUE)
    ELSE Outcome("post_error", TRUE, FALSE, TRUE)

\* execute_action for the codes that are not alarm codes (lines 331-371)
PlatformAction_lookupFirst(inp) ==
    IF inp.action_type # "SEARCH_NEWS" /\ ~inp.has_client
    THEN Outcome("no_client", TRUE, FALSE, FALSE)
    ELSE IF inp.body.empty
    THEN Outcome("empty_body", TRUE, FALSE, FALSE)
    ELSE IF inp.action_type = "SEARCH_NEWS" THEN ExecuteSearch(inp)
    ELSE PostAction(inp)

PlatformAction(inp) ==
    IF inp.body.empty THEN Outcome("empty_body", FALSE, FALSE, FALSE)
    ELSE IF inp.action_type = "SEARCH_NEWS" THEN ExecuteSearch(inp)
    ELSE PostAction(inp)

\* execute_action(action_type, body, channel_id, author)
ExecuteActionOutcome(inp) ==
    IF inp.action_type \notin DOMAIN ACTION_MAP
    THEN Outcome("unknown_action", FALSE, FALSE, FALSE)
    ELSE IF inp.action_type = "SET_ALARM"
    THEN IF inp.channel_id = 0
         THEN Outcome("no_context", FALSE, FALSE, FALSE)
         ELSE ExecuteSetAlarm(inp)
    ELSE IF inp.action_type = "CANCEL_ALARM" THEN ExecuteCancelAlarm(inp)
    ELSE PlatformAction(inp)

restOfAction ==
    <<approvalVars, alarmVars, schedulerVars, usageVars, channelVars,
      historyVars, respondVars, replyVars, textVars, hrVars, loopVars>>

\* the call of execute_action on the arguments drawn
ExecuteActionCall ==
    /\ act_in # <<>>
    /\ act_out = <<>>
    /\ act_out' = <<ExecuteActionOutcome(act_in[1])>>
    /\ UNCHANGED act_in
    /\ UNCHANGED restOfAction

InitActionSpec ==
    /\ act_in \in {<<inp>> : inp \in ActionInputs}
    /\ act_out = <<>>
    /\ TextIdle /\ HrIdle /\ LoopIdle
    /\ ChannelIdle /\ HistoryIdle /\ RespondIdle /\ ReplyIdle
    /\ ApprovalIdle /\ AlarmIdle /\ SchedulerIdle /\ UsageIdle

NextAction == ExecuteActionCall

SpecAction == InitActionSpec /\ [][NextAction]_vars

(***************************************************************************)
(* Deactivation and reactivation of an agent (fire_bot / hire_bot), the    *)
(* re-onboarding notice of build_context, and the alarm loop of the same   *)
(* agent.                                                                  *)
(***************************************************************************)
restOfAgent ==
    <<approvalVars, alarmVars, schedulerVars, usageVars, channelVars,
      historyVars, respond_call, respond_ret, replyVars, textVars,
      actionVars>>

\* fire_bot for an unprotected agent of the registry
FireBot ==
    /\ agent_active
    /\ agent_active' = FALSE
    /\ UNCHANGED <<hrVars, loopVars>>
    /\ UNCHANGED restOfAgent

\* hire_bot: an active agent is left as it is
HireBot ==
    /\ IF agent_active
       THEN UNCHANGED <<agent_active, hrVars>>
       ELSE /\ agent_active' = TRUE
            /\ agent_rehired' = TRUE
            /\ hire_seen' = TRUE
            /\ ctx_notices' = <<>>
    /\ UNCHANGED loopVars
    /\ UNCHANGED restOfAgent

\* build_context: self._rehired after the notice was appended
AfterNotice_kept(rehired) == rehired

AfterNotice(rehired) == FALSE

\* on_message up to the reasoning call: should_respond, then build_context
\* with the notice when self._rehired is set
AgentOnMessage(msg) ==
    /\ should_respond(agent_active, suppress_bot_replies, msg)
    /\ Len(ctx_notices) < MaxContexts
    /\ ctx_notices' = Append(ctx_notices, agent_rehired)
    /\ agent_rehired' = IF agent_rehired THEN AfterNotice(agent_rehired)
                        ELSE agent_rehired
    /\ UNCHANGED <<agent_active, hire_seen, loopVars>>
    /\ UNCHANGED restOfAgent

\* the except clause of the loop body: the error is logged and the loop
\* goes on
AfterLoopError_uncaught == "crashed"

AfterLoopError == "sleeping"

\* the while condition, read after a pass
AfterPass(at) == IF at = "sleeping" /\ loop_closed THEN "ended" ELSE at

\* one pass of _alarm_loop after its sleep: list_alarms or get_due_alarms
\* raises, or a task is made for every due id that is not in flight
LoopPoll(raises, due) ==
    /\ loop_pc = "sleeping"
    /\ loop_polls < MaxPolls
    /\ \A id \in LoopAlarmIds : loop_fire[id] # "created"
    /\ loop_polls' = loop_polls + 1
    /\ IF raises
       THEN /\ loop_errors' = loop_errors + 1
            /\ last_poll' = [raised |-> TRUE, made |-> {},
                             failed_before |-> fire_failed]
            /\ loop_pc' = AfterPass(AfterLoopError)
            /\ UNCHANGED loop_fire
       ELSE /\ loop_fire' = [id \in LoopAlarmIds |->
                                IF id \in due /\ loop_fire[id] # "running"
                                THEN "created" ELSE loop_fire[id]]
            /\ last_poll' =
                  [raised |-> FALSE,
                   made |-> {id \in due : loop_fire[id] # "running"},
                   failed_before |-> fire_failed]
            /\ loop_pc' = AfterPass("sleeping")
            /\ UNCHANGED loop_errors
    /\ UNCHANGED <<loop_closed, fire_failed>>
    /\ UNCHANGED <<agent_active, hrVars>>
    /\ UNCHANGED restOfAgent

\* _fire_alarm up to the reasoning call
LoopFireStart(id) ==
    /\ loop_fire[id] = "created"
    /\ loop_fire' = [loop_fire EXCEPT ![id] = "running"]
    /\ UNCHANGED <<loop_pc, loop_closed, loop_polls, loop_errors, fire_failed,
                   last_poll>>
    /\ UNCHANGED <<agent_active, hrVars>>
    /\ UNCHANGED restOfAgent

\* _fire_alarm from the return of the reasoning call to its end: the output
\* is sent, or the call or a send raises and the failure is logged
LoopFireEnd(id, res) ==
    /\ loop_fire[id] = "running"
    /\ loop_fire' = [loop_fire EXCEPT ![id] = "none"]
    /\ fire_failed' = IF res = "raise" THEN fire_failed \cup {id}
                      ELSE fire_failed
    /\ UNCHANGED <<loop_pc, loop_closed, loop_polls, loop_errors, last_poll>>
    /\ UNCHANGED <<agent_active, hrVars>>
    /\ UNCHANGED restOfAgent

\* the connection closes
LoopClose ==
    /\ ~loop_closed
    /\ loop_closed' = TRUE
    /\ UNCHANGED <<loop_pc, loop_polls, loop_errors, loop_fire, fire_failed,
                   last_poll>>
    /\ UNCHANGED <<agent_active, hrVars>>
    /\ UNCHANGED restOfAgent

InitAgentSpec ==
    /\ HrIdle /\ LoopIdle
    /\ TextIdle /\ ActionIdle
    /\ ChannelIdle /\ HistoryIdle /\ RespondIdle /\ ReplyIdle
    /\ ApprovalIdle /\ AlarmIdle /\ SchedulerIdle /\ UsageIdle

NextAgent ==
    \/ FireBot
    \/ HireBot
    \/ \E msg \in Incoming : AgentOnMessage(msg)
    \/ \E due \in SUBSET LoopAlarmIds : LoopPoll(FALSE, due)
    \/ LoopPoll(TRUE, {})
    \/ \E id \in LoopAlarmIds : LoopFireStart(id)
    \/ \E id \in LoopAlarmIds, res \in SendResults : LoopFireEnd(id, res)
    \/ LoopClose

SpecAgent == InitAgentSpec /\ [][NextAgent]_vars

C39_NoticeOnce ==
    /\ \A i \in 1..Len(ctx_notices) :
            ctx_notices[i] = (hire_seen /\ i = 1)
    /\ agent_rehired = (hire_seen /\ ctx_notices = <<>>)

\* two contexts were built after a reactivation
C39_Witness ==
    /\ hire_seen
    /\ Len(ctx_notices) = 2
    /\ ctx_notices[1] /\ ~ctx_notices[2]
    /\ ~agent_rehired

\* C40: while the agent is deactivated no reasoning call starts and no
\* output is sent: no context is built for a message, and the alarm loop
\* makes no task for a due entry and no firing starts its reasoning call
C40_DeactivatedDoesNothing ==
    [][~agent_active =>
        /\ Len(ctx_notices') <= Len(ctx_notices)
        /\ \A id \in LoopAlarmIds :
              /\ loop_fire'[id] = "created" => loop_fire[id] = "created"
              /\ loop_fire'[id] = "running" => loop_fire[id] = "running"]_vars

\* the codes of ACTION_MAP that post to a platform
PostCodes == (DOMAIN ACTION_MAP) \ {"SET_ALARM", "CANCEL_ALARM", "SEARCH_NEWS"}

\* C36: execute_action never raises: a posting action, whatever its body,
\* the connected clients, the approval policy and the outcome of the post
\* or of the approval enqueue, ends with a returned text
C36_ExecuteActionNeverRaises ==
    (act_out # <<>> /\ act_in[1].action_type \in PostCodes)
        => (~act_out[1].raised /\ act_out[1].text # None)

\* C38: execute_action classifies in a fixed order: an unknown code first;
\* SET_ALARM needs a message context and then non-empty schedule and
\* prompt fields; CANCEL_ALARM takes the alarm_id field or the raw body
\* and is rejected only when both are empty; every other action with an
\* empty body is rejected before any client is looked up
C38_ClassificationOrder ==
    act_out # <<>> =>
        LET inp == act_in[1]
            out == act_out[1]
        IN  /\ inp.action_type \notin DOMAIN ACTION_MAP
                => out.text = "unknown_action"
            /\ (inp.action_type = "SET_ALARM" /\ inp.channel_id = 0)
                => out.text = "no_context"
            /\ (inp.action_type = "SET_ALARM" /\ inp.channel_id # 0)
                => /\ ~inp.body.schedule => out.text = "no_schedule"
                   /\ (inp.body.schedule /\ ~inp.body.prompt)
                        => out.text = "no_prompt"
                   /\ (inp.body.schedule /\ inp.body.prompt)
                        => out.text \notin {"no_schedule", "no_prompt",
                                            "no_context", "empty_body"}
            /\ inp.action_type = "CANCEL_ALARM"
                => (out.text = "no_alarm_id"
                        <=> (~inp.body.alarm_id /\ inp.body.empty))
            /\ (inp.action_type \in DOMAIN ACTION_MAP
                    /\ inp.action_type \notin {"SET_ALARM", "CANCEL_ALARM"}
                    /\ inp.body.empty)
                => /\ out.text = "empty_body"
                   /\ ~out.client_lookup
                   /\ ~out.enqueue_called /\ ~out.client_called
            /\ (inp.action_type \in DOMAIN ACTION_MAP /\ ~inp.body.empty)
                => out.text # "empty_body"

\* an action with an empty body for a platform whose client is missing was
\* rejected for its body
C38_Witness ==
    /\ act_out # <<>>
    /\ act_in[1].action_type \in PostCodes
    /\ act_in[1].body.empty
    /\ ~act_in[1].has_client
    /\ act_out[1].text = "empty_body"

(***************************************************************************)
(* Properties of the approval queue.                                       *)
(***************************************************************************)
RecOf(q, rec_id) == q[FindIdx(q, rec_id)]

LegalTransitions == {<<"pending", "approved">>, <<"approved", "posted">>,
                     <<"approved", "failed">>, <<"pending", "rejected">>}

\* C1: the status of a record only ever changes along pending->approved,
\* approved->posted, approved->failed or pending->rejected.
C1_OnlyLegalTransitions ==
    [][\A i \in 1..Len(queue) :
          queue'[i].status # queue[i].status
          => <<queue[i].status, queue'[i].status>> \in LegalTransitions]_vars

\* C2: the executor is invoked at most once per record, and an
\* approve_and_execute call that finds the record not pending returns
\* invalid_status:<status> without invoking the executor or changing a record.
C2_ExecutedAtMostOnce ==
    /\ [](\A i \in 1..MaxRecs : client_calls[i] <= 1)
    /\ [][\A p \in Procs :
            LET i == FindIdx(queue, call[p].rec_id) IN
            (pc[p] = "apv_cs" /\ pc'[p] # "apv_cs" /\ i # 0
               /\ queue[i].status # "pending")
            => /\ pc'[p] = "done"
               /\ ret'[p].success = FALSE
               /\ ret'[p].error = "invalid_status:" \o queue[i].status
               /\ queue' = queue
               /\ client_calls' = client_calls]_vars

\* C2 witness: a record was executed once and a second approve_and_execute
\* on it has returned invalid_status.
C2_Witness ==
    \E p \in Procs :
        /\ pc[p] = "done"
        /\ call[p].op = "approve_and_execute"
        /\ client_calls[call[p].rec_id] = 1
        /\ ret[p].error \in {"invalid_status:" \o st : st \in Statuses}

\* C3: when approve_and_execute returns after it found the record pending,
\* the record is posted with the executor's post id iff the executor
\* reported success, and failed with the error text otherwise (failure,
\* exception, unsupported platform or action kind); never approved.
C3_ApproveEndsTerminal ==
    [][\A p \in Procs :
          (pc[p] = "stamp_cs" /\ pc'[p] = "done")
          => LET r == RecOf(queue', call[p].rec_id) IN
             /\ r.status \in {"posted", "failed"}
             /\ (call[p].res = "ok") <=> (r.status = "posted")
             /\ r.status = "posted"
                  => r.post_id = "123" /\ ret'[p].success
                     /\ ret'[p].post_id = "123"
             /\ r.status = "failed"
                  => r.error = call[p].err /\ r.error # None
                     /\ ~ret'[p].success /\ ret'[p].error = call[p].err]_vars

\* C3 witness: one approval has returned with its record posted and another
\* with its record failed.
C3_Witness ==
    \E p, o \in Procs :
        /\ pc[p] = "done" /\ call[p].op = "approve_and_execute"
        /\ ret[p].success
        /\ RecOf(queue, call[p].rec_id).status = "posted"
        /\ pc[o] = "done" /\ call[o].op = "approve_and_execute"
        /\ ret[o].error \in {"api_error", "exception", "unsupported platform",
                            "unsupported action"}
        /\ RecOf(queue, call[o].rec_id).status = "failed"

\* C4: reject on a record that is not pending is refused with a state error
\* and leaves the record unchanged.
C4_RejectOnlyPending ==
    [][\A p \in Procs :
          LET i == FindIdx(queue, call[p].rec_id) IN
          (pc[p] = "rej_cs" /\ pc'[p] = "done" /\ i # 0
             /\ queue[i].status # "pending")
          => ~ret'[p].success /\ queue' = queue]_vars

\* C5: with the manual-approval policy on, execute_action makes no direct
\* client.post; it appends a pending record, and a client call is made only
\* by an approve_and_execute call that found its record pending.
C5_ApprovalGate ==
    /\ [](require_manual_approval => direct_posts = 0)
    /\ [][require_manual_approval =>
            /\ \A p \in Procs :
                 (call[p].op = "execute_action" /\ pc[p] = "enq_cs"
                    /\ pc'[p] = "done")
                 => /\ Len(queue') = Len(queue) + 1
                    /\ queue'[Len(queue')].status = "pending"
                    /\ client_calls' = client_calls
            /\ \A i \in 1..MaxRecs :
                 client_calls'[i] # client_calls[i]
                 => \E p \in Procs :
                      /\ call[p].op = "approve_and_execute"
                      /\ call[p].rec_id = i
                      /\ pc[p] = "apv_call"
                      /\ call[p].target.status = "pending"]_vars

\* C5 witness: with the policy on, an execute_action call has returned its
\* "awaiting approval" text and its record was later executed by an approval.
C5_Witness ==
    /\ require_manual_approval
    /\ \E p \in Procs :
         /\ pc[p] = "done"
         /\ call[p].op = "execute_action"
         /\ ret[p].text = "approval_pending"
         /\ client_calls[ret[p].approval_id] = 1

\* C6: enqueue_post appends one new pending record, leaves every existing
\* record unchanged and invokes no executor; list_pending returns exactly
\* the records whose status is pending.
C6_EnqueueAndListPending ==
    [][\A p \in Procs :
          /\ (pc[p] = "idle" /\ pc'[p] = "enq_cs")
             => queue' = queue /\ client_calls' = client_calls
                /\ direct_posts' = direct_posts
          /\ (pc[p] = "enq_cs" /\ pc'[p] = "done")
             => /\ Len(queue') = Len(queue) + 1
                /\ \A i \in 1..Len(queue) : queue'[i] = queue[i]
                /\ queue'[Len(queue')].status = "pending"
                /\ queue'[Len(queue')].id = ret'[p].approval_id
                /\ \A i \in 1..Len(queue) : queue[i].id # ret'[p].approval_id
                /\ client_calls' = client_calls
                /\ direct_posts' = direct_posts
          /\ (pc[p] = "idle" /\ pc'[p] = "done"
                /\ call'[p].op = "list_pending")
             => /\ \A i \in 1..Len(queue) :
                      queue[i].id \in ret'[p].pending
                      <=> queue[i].status = "pending"
                /\ \A id \in ret'[p].pending :
                      \E i \in 1..Len(queue) : queue[i].id = id
                /\ queue' = queue]_vars

\* C6 witness: enqueue_post has returned after appending a pending record
\* behind a record that is no longer pending.
C6_Witness ==
    \E p \in Procs :
        /\ pc[p] = "done"
        /\ call[p].op = "enqueue_post"
        /\ Len(queue) = 2
        /\ queue[1].status = "posted"
        /\ queue[2].status = "pending"
        /\ queue[2].id = ret[p].approval_id

\* C25: a record for which reject returned success is never published: the
\* executor's effect and a final posted status never coexist with a
\* successful reject of that record.
C25_RejectedNeverPublished ==
    \A p \in Procs :
        (call[p].op = "reject" /\ ret[p].success) =>
            LET i == FindIdx(queue, call[p].rec_id)
            IN  ~(/\ i # 0
                  /\ queue[i].status = "posted"
                  /\ client_calls[call[p].rec_id] > 0)

\* C27: approve_and_execute does not hold the queue lock while the executor
\* call is in flight; it holds the lock only for the pending->approved flip
\* and again for stamping the terminal status, so other operations can take
\* the lock during the call.
C27_LockFreeDuringExecutorCall ==
    \A p \in Procs :
        /\ pc[p] \in {"apv_call", "apv_inflight", "stamp_wait"} =>
              file_lock # p
        /\ (file_lock = p /\ call[p].op = "approve_and_execute") =>
              pc[p] \in {"apv_cs", "stamp_cs"}

\* while one approval's executor call is in flight, a reject or an approval
\* of another record holds the lock
C27_Witness ==
    \E p \in Procs, q \in Procs :
        /\ pc[p] = "apv_inflight"
        /\ file_lock = q
        /\ call[q].op \in {"reject", "approve_and_execute", "enqueue_post"}
        /\ call[q].rec_id # call[p].rec_id

(***************************************************************************)
(* Properties of the alarm loop and the scheduler.                         *)
(***************************************************************************)
\* C7: for every schedule entry id at most one _fire_alarm execution is in
\* progress at any time, and the id of an execution in progress is in the
\* in-flight set, which makes the poll skip the entry when it is due again.
C7_OneFireInProgress ==
    \A id \in AlarmIds :
        /\ TaskCount(id) <= 1
        /\ fire_tasks[id].executing + fire_tasks[id].sending > 0
           => id \in in_flight

\* C7 witness: an entry is due again while its previous fire is still
\* executing.
C7_Witness ==
    \E id \in DOMAIN alarms :
        /\ fire_tasks[id].executing = 1
        /\ id \in in_flight
        /\ alarms[id].last_run # <<>>
        /\ alarms[id].last_run[1] < now
        /\ id \in GetDueAlarms(alarms, now)

\* C8: last_run is stamped when the reasoning call of a fire starts, a stamp
\* is never taken back or moved backwards (whatever way the fire ends), and
\* a reasoning call starts only outside the due window of the entry's
\* previous stamp: on a later local date for daily and weekday entries, a
\* full interval later for interval entries, never for a stamped once entry.
C8_StampedBeforeCall ==
    [][\A id \in AlarmIds :
          /\ (id \in DOMAIN alarms'
                /\ fire_tasks'[id].executing + fire_tasks'[id].sending > 0)
             => alarms'[id].last_run # <<>>
          /\ (id \in DOMAIN alarms /\ id \in DOMAIN alarms'
                /\ alarms[id].last_run # <<>>)
             => /\ alarms'[id].last_run # <<>>
                /\ alarms'[id].last_run[1] >= alarms[id].last_run[1]
          /\ (id \in DOMAIN alarms
                /\ fire_tasks'[id].executing > fire_tasks[id].executing)
             => /\ alarms'[id].last_run = <<now>>
                /\ alarms[id].last_run # <<>>
                   => LET e == alarms[id]
                          prev == e.last_run[1]
                      IN  IF e.schedule_type \in {"daily", "weekday"}
                          THEN (prev + ZoneOffset(e.tz)) \div MinutesPerDay
                                 < (now + ZoneOffset(e.tz)) \div MinutesPerDay
                          ELSE IF e.schedule_type = "interval"
                          THEN now - prev >= e.interval_minutes
                          ELSE FALSE]_vars

\* C8 witness: the fire of a once entry has failed (a completed fire removes
\* the entry); the entry keeps its stamp and is not due although its fire
\* instant has passed.
C8_Witness ==
    \E id \in DOMAIN alarms :
        /\ alarms[id].schedule_type = "once"
        /\ alarms[id].last_run # <<>>
        /\ TaskCount(id) = 0
        /\ id \notin in_flight
        /\ now > alarms[id].fire_at[1]
        /\ id \notin GetDueAlarms(alarms, now)

\* C9: a daily or weekday entry stamped by mark_run at t is not reported by
\* get_due_alarms at an instant on the local date of t (in the entry's
\* zone); when it is reported, the local date is past that of t and the
\* local time is at or past the scheduled time.
C9_NotDueOnStampedDate ==
    \A id \in DOMAIN alarms :
        LET e == alarms[id] IN
        (e.schedule_type \in {"daily", "weekday"} /\ e.last_run # <<>>)
        => LET ranOn == (e.last_run[1] + ZoneOffset(e.tz)) \div MinutesPerDay
               today == (now + ZoneOffset(e.tz)) \div MinutesPerDay
               tod == (now + ZoneOffset(e.tz)) % MinutesPerDay
           IN  /\ ranOn = today => id \notin GetDueAlarms(alarms, now)
               /\ id \in GetDueAlarms(alarms, now)
                  => today > ranOn /\ tod >= e.hour * 60 + e.minute

\* C9 witness: an entry stamped earlier on the same local date, which is
\* another date in UTC, is past its scheduled time and not reported.
C9_Witness ==
    \E id \in DOMAIN alarms :
        LET e == alarms[id] IN
        /\ e.schedule_type \in {"daily", "weekday"}
        /\ e.enabled
        /\ e.last_run # <<>>
        /\ e.last_run[1] < now
        /\ LocalDate(e.last_run[1], e.tz) = LocalDate(now, e.tz)
        /\ e.last_run[1] \div MinutesPerDay # now \div MinutesPerDay
        /\ LocalTimeOfDay(now, e.tz) >= e.hour * 60 + e.minute
        /\ LocalWeekday(now, e.tz) < 5
        /\ id \notin GetDueAlarms(alarms, now)

\* C10: a daily or weekday entry is due exactly when it is enabled, the
\* local time is at or after the scheduled hour:minute, it has no last_run
\* or its last_run falls on another local date, and, for a weekday entry,
\* the local weekday is Monday to Friday.
C10_DailyDueIff ==
    \A id \in DOMAIN alarms :
        LET e == alarms[id] IN
        e.schedule_type \in {"daily", "weekday"}
        => LET local == now + ZoneOffset(e.tz)
               today == local \div MinutesPerDay
               tod == local % MinutesPerDay
               weekday == (today + 4) % 7
           IN  id \in GetDueAlarms(alarms, now)
               <=> /\ e.enabled
                   /\ tod >= e.hour * 60 + e.minute
                   /\ \/ e.last_run = <<>>
                      \/ (e.last_run[1] + ZoneOffset(e.tz)) \div MinutesPerDay
                           # today
                   /\ e.schedule_type = "weekday" => weekday <= 4

\* C10 witness: a weekday entry is due at exactly its scheduled minute, on a
\* working day after the weekend on which it was not due.
C10_Witness ==
    \E id \in DOMAIN alarms :
        LET e == alarms[id] IN
        /\ e.schedule_type = "weekday"
        /\ LocalTimeOfDay(now, e.tz) = e.hour * 60 + e.minute
        /\ LocalWeekday(now, e.tz) = 0
        /\ id \in GetDueAlarms(alarms, now)

\* C11: an interval entry that has never run is due at every instant; one
\* stamped by mark_run at t is due exactly at the instants now with
\* now - t at least its interval.
C11_IntervalDueIff ==
    \A id \in DOMAIN alarms :
        LET e == alarms[id] IN
        (e.schedule_type = "interval" /\ e.enabled)
        => /\ e.last_run = <<>> => id \in GetDueAlarms(alarms, now)
           /\ e.last_run # <<>>
              => LET elapsed == now - e.last_run[1] IN
                 /\ elapsed < e.interval_minutes
                    => id \notin GetDueAlarms(alarms, now)
                 /\ elapsed >= e.interval_minutes
                    => id \in GetDueAlarms(alarms, now)

\* C11 witness: some time after its stamp, but less than its interval, an
\* interval entry is not due.
C11_Witness ==
    \E id \in DOMAIN alarms :
        LET e == alarms[id] IN
        /\ e.schedule_type = "interval"
        /\ e.last_run # <<>>
        /\ now - e.last_run[1] > 0
        /\ now - e.last_run[1] < e.interval_minutes
        /\ id \notin GetDueAlarms(alarms, now)

\* C12: a once entry is due exactly when it has never run and now is at or
\* after its fire_at; fire_at is set at creation to the creation instant
\* plus the offset and no later operation changes it.
C12_OnceDueIff ==
    [][/\ \A id \in DOMAIN alarms' :
             alarms'[id].schedule_type = "once"
             => /\ id \in GetDueAlarms(alarms', now')
                   <=> /\ alarms'[id].enabled
                       /\ alarms'[id].last_run = <<>>
                       /\ alarms'[id].fire_at # <<>>
                       /\ now' >= alarms'[id].fire_at[1]
                /\ id \notin DOMAIN alarms
                   => alarms'[id].fire_at
                        = <<now + alarms'[id].interval_minutes>>
       /\ \A id \in (DOMAIN alarms) \cap (DOMAIN alarms') :
             alarms'[id].fire_at = alarms[id].fire_at]_vars

\* C12 witness: a once entry that has never run is due at exactly its
\* fire_at.
C12_Witness ==
    \E id \in DOMAIN alarms :
        LET e == alarms[id] IN
        /\ e.schedule_type = "once"
        /\ e.last_run = <<>>
        /\ now = e.fire_at[1]
        /\ id \in GetDueAlarms(alarms, now)

StoredIds(store) == {store[i].alarm_id : i \in 1..Len(store)}

C29_InFlightOnlyWhileRunning ==
    [][\A id \in AlarmIds :
          /\ id \in in_flight'
             => fire_tasks'[id].executing + fire_tasks'[id].sending > 0
          /\ TaskCount(id)' < TaskCount(id) => id \notin in_flight']_vars

\* C29 witness: a fire of the entry has ended, the entry is due again and
\* its id is not in the in-flight set.
C29_Witness ==
    \E id \in DOMAIN alarms :
        /\ alarms[id].last_run # <<>>
        /\ TaskCount(id) = 0
        /\ id \notin in_flight
        /\ id \in GetDueAlarms(alarms, now)

(***************************************************************************)
(* Properties of the AlarmScheduler.                                       *)
(***************************************************************************)
\* C14: a scheduler that started with at most 20 entries never holds more
\* than 20; add_alarm called on a full scheduler raises the limit error and
\* adds nothing.
C14_AtMostCapEntries ==
    [][/\ Cardinality(DOMAIN alarms) <= 20
          => Cardinality(DOMAIN alarms') <= 20
       /\ (sched_calls' = sched_calls + 1 /\ sched_call'.op = "add_alarm"
             /\ Cardinality(DOMAIN alarms) >= 20)
          => /\ sched_ret'.error = "limit"
             /\ alarms' = alarms
             /\ alarm_store' = alarm_store]_vars

\* C14 witness: add_alarm has filled the scheduler to 20 entries and the
\* next add_alarm has been refused.
C14_Witness ==
    /\ Cardinality(DOMAIN alarms) = 20
    /\ Len(alarm_store) = 20
    /\ next_alarm_id = 21
    /\ alarm_store[20].schedule_type = "once"
    /\ sched_call.op = "add_alarm"
    /\ sched_ret.error = "limit"

\* C15: add_alarm raises, and changes neither the entry set nor the store,
\* when the schedule string has no supported form, its hour or minute is
\* out of range, its duration is below 10 minutes or the zone is unknown;
\* when it succeeds it adds exactly one entry, which has the kind and the
\* numbers of the string.
C15_AddAlarmRejectsOrAddsOne ==
    [][(sched_calls' = sched_calls + 1 /\ sched_call'.op = "add_alarm")
       => LET s == sched_call'.s
              tz == sched_call'.tz
              timed == s.form \in {"daily", "weekday"}
              lasting == s.form \in {"every", "once"} /\ s.unit \in {"h", "m"}
              minutes == IF s.unit = "h" THEN s.a * 60 ELSE s.a
              supported ==
                  \/ timed /\ s.a \in 0..23 /\ s.b \in 0..59
                  \/ lasting /\ minutes >= 10
              bad == ~supported \/ tz \notin {"UTC", "Asia/Seoul"}
              new == sched_ret'.id
          IN  /\ bad => /\ sched_ret'.error # None
                        /\ alarms' = alarms
                        /\ alarm_store' = alarm_store
              /\ sched_ret'.error # None => alarms' = alarms
              /\ (~bad /\ Cardinality(DOMAIN alarms) < 20)
                 => /\ sched_ret'.error = None
                    /\ new \notin DOMAIN alarms
                    /\ DOMAIN alarms' = (DOMAIN alarms) \cup {new}
                    /\ \A id \in DOMAIN alarms : alarms'[id] = alarms[id]
                    /\ alarms'[new].tz = tz
                    /\ alarms'[new].last_run = <<>>
                    /\ alarms'[new].enabled
                    /\ timed
                       => /\ alarms'[new].schedule_type = s.form
                          /\ alarms'[new].hour = s.a
                          /\ alarms'[new].minute = s.b
                    /\ lasting
                       => /\ alarms'[new].schedule_type
                               = (IF s.form = "every" THEN "interval"
                                  ELSE "once")
                          /\ alarms'[new].interval_minutes = minutes]_vars

\* C15 witness: add_alarm("once 9m") has raised and add_alarm("every 10m")
\* before it has added an interval entry of 10 minutes.
C15_Witness ==
    /\ sched_call.op = "add_alarm"
    /\ sched_call.s.form = "once"
    /\ sched_call.s.a = 9
    /\ sched_call.s.unit = "m"
    /\ sched_ret.error = "schedule"
    /\ \E id \in DOMAIN alarms :
          /\ alarms[id].schedule_type = "interval"
          /\ alarms[id].interval_minutes = 10

\* C16: after every add_alarm, remove_alarm or mark_run that returns, a
\* fresh AlarmScheduler that loads the store has the ids and fields of the
\* entry set in memory.
C16_StoreHoldsEntrySet ==
    [][(/\ sched_calls' = sched_calls + 1
        /\ sched_call'.op \in {"add_alarm", "remove_alarm", "mark_run"}
        /\ sched_ret'.error = None)
       => Load(alarm_store') = alarms']_vars

(***************************************************************************)
(* Properties of the usage tracker.                                        *)
(***************************************************************************)
\* number of recorded calls younger than the given number of seconds
RecordedWithin(seconds) ==
    Cardinality({i \in 1..Len(usage_calls) :
                    usage_clock - usage_calls[i] < seconds})

\* C17: with cooldown 0 and not paused, check_limits passes exactly when
\* each window (60 s, 3600 s, 86400 s) holds fewer recorded calls than its
\* limit; a window that alone holds as many calls as its limit is the one
\* the error names, and the error names only a window at its limit; calls
\* as old as the window or older do not count.
C17_BlocksAtBoundary ==
    (usage_ret # None /\ ~usage_limits.paused
       /\ usage_limits.min_call_interval_seconds = 0)
    => LET m == RecordedWithin(60)
           h == RecordedWithin(3600)
           d == RecordedWithin(86400)
           overM == m >= usage_limits.max_calls_per_minute
           overH == h >= usage_limits.max_calls_per_hour
           overD == d >= usage_limits.max_calls_per_day
       IN  /\ usage_ret = "ok" <=> ~overM /\ ~overH /\ ~overD
           /\ usage_ret = "minute" => overM
           /\ usage_ret = "hour" => overH
           /\ usage_ret = "day" => overD
           /\ (overM /\ ~overH /\ ~overD) => usage_ret = "minute"
           /\ (overH /\ ~overM /\ ~overD) => usage_ret = "hour"
           /\ (overD /\ ~overM /\ ~overH) => usage_ret = "day"

\* C17 witness: the hour window is exactly at its limit and blocks, while
\* the minute window holds fewer calls than its limit because one call is
\* exactly 60 s old.
C17_Witness ==
    /\ usage_ret = "hour"
    /\ ~usage_limits.paused
    /\ usage_limits.min_call_interval_seconds = 0
    /\ RecordedWithin(3600) = usage_limits.max_calls_per_hour
    /\ RecordedWithin(60) = usage_limits.max_calls_per_minute - 1
    /\ \E i \in 1..Len(usage_calls) : usage_clock - usage_calls[i] = 60

\* the limits that are violated in the current state
Violated ==
    {k \in {"paused", "cooldown", "minute", "hour", "day"} :
        \/ k = "paused" /\ usage_limits.paused
        \/ k = "cooldown" /\ Len(usage_calls) > 0
              /\ usage_clock - usage_calls[Len(usage_calls)]
                   < usage_limits.min_call_interval_seconds
        \/ k = "minute"
              /\ RecordedWithin(60) >= usage_limits.max_calls_per_minute
        \/ k = "hour"
              /\ RecordedWithin(3600) >= usage_limits.max_calls_per_hour
        \/ k = "day"
              /\ RecordedWithin(86400) >= usage_limits.max_calls_per_day}

\* place of a limit in the order pause, cooldown, minute, hour, day
CheckRank(k) ==
    CASE k = "paused" -> 1 [] k = "cooldown" -> 2 [] k = "minute" -> 3
      [] k = "hour" -> 4 [] k = "day" -> 5

\* C18: check_limits passes when no limit is violated and otherwise reports
\* the violated limit that comes first in the order pause flag, cooldown,
\* per-minute, per-hour, per-day.
C18_FirstViolationWins ==
    usage_ret # None
    => IF Violated = {} THEN usage_ret = "ok"
       ELSE /\ usage_ret \in Violated
            /\ \A k \in Violated : CheckRank(usage_ret) <= CheckRank(k)

\* C18 witness: cooldown and all three windows are violated at once and the
\* cooldown is reported.
C18_Witness ==
    /\ usage_ret = "cooldown"
    /\ Violated = {"cooldown", "minute", "hour", "day"}

\* recorded calls in the window of the given length that ends at t
CallsInWindow(seconds, t) == CallsSince(usage_calls, seconds, t)
                               - CallsSince(usage_calls, 0, t)

\* C26: under any interleaving of execute calls on one tracker, no minute,
\* hour or day window holds more recorded calls than its configured
\* maximum, and no two recorded calls are closer than the cooldown.
C26_RecordedWithinLimits ==
    /\ \A i \in 1..Len(usage_calls) :
          /\ CallsInWindow(MinuteSeconds, usage_calls[i])
                <= usage_limits.max_calls_per_minute
          /\ CallsInWindow(HourSeconds, usage_calls[i])
                <= usage_limits.max_calls_per_hour
          /\ CallsInWindow(DaySeconds, usage_calls[i])
                <= usage_limits.max_calls_per_day
    /\ \A i, j \in 1..Len(usage_calls) :
          i < j => usage_calls[j] - usage_calls[i]
                     >= usage_limits.min_call_interval_seconds

CyclesIn(c) == {t \in cycles : t.channel = c}

\* C19: within one channel at most one reasoning/action cycle is in flight
\* at any time: no second reasoning task is started for a channel while an
\* earlier task of that channel is still running.
C19_OneCyclePerChannel ==
    \A c \in ChannelIds : Cardinality(CyclesIn(c)) <= 1

\* the step is on_message for an ordinary message of a human author in the
\* shared channel c
HumanMessageIn(c) ==
    \E m \in BOOLEAN :
        OnMessage([channel |-> c, is_bot |-> FALSE, is_mention |-> m,
                   cmd |-> None])

\* the step is on_message for any message of a human author in the shared
\* channel c
AnyHumanMessageIn(c) ==
    \E msg \in Messages :
        msg.channel = c /\ ~msg.is_bot /\ OnMessage(msg)

C24_CleanupOwnEntryOnly ==
    [][\A t \in cycles :
         cycles' = cycles \ {t} =>
            /\ active_tasks[t.channel] = t.id =>
                  active_tasks' = [active_tasks EXCEPT ![t.channel] = 0]
            /\ active_tasks[t.channel] # t.id =>
                  active_tasks' = active_tasks]_vars

\* the older of two tasks of one channel has finished, and the newer one,
\* started while the older ran, still has the channel's entry
C24_Witness ==
    /\ reply_path = "bot"
    /\ \E c \in ChannelIds :
          /\ cycles = {[id |-> 2, channel |-> c, cancelled |-> FALSE]}
          /\ active_tasks[c] = 2

\* C31: suppression of replies to agent-authored messages is per channel:
\* with the chain ceiling exceeded in one shared channel, an agent-authored
\* message addressed to the agent in another shared channel, whose count is
\* below the ceiling, still starts a reply cycle.
C31_SuppressionPerChannel ==
    \A c \in TeamChannelIds, d \in TeamChannelIds :
        (/\ c # d
         /\ bot_chain_count[d] > MaxBotChain
         /\ bot_chain_count[c] < MaxBotChain)
        => ShouldRespond([channel |-> c, is_bot |-> TRUE,
                          is_mention |-> TRUE, cmd |-> None])

\* C35: a command text authored by another agent is not executed as a
\* command: handling it sends no answer of a command (a reply is sent only
\* by a reasoning cycle) and sets no suppression (other than by the chain
\* ceiling).
C35_CommandsOfAgentsIgnored ==
    [][\A msg \in Messages :
          (msg.is_bot /\ msg.cmd # None /\ OnMessage(msg))
          => /\ bot_replies' # bot_replies => cycles' # cycles
             /\ suppress_bot_replies'
                => \/ suppress_bot_replies
                   \/ bot_chain_count'[msg.channel] > MaxBotChain]_vars

(***************************************************************************)
(* Properties of the conversation history.                                 *)
(***************************************************************************)
\* C21: the number of channels held in the channel-history map never
\* exceeds the configured channel cap, after any sequence of build_context,
\* save_to_history and clear_history calls over any number of channels.
C21_AtMostCapChannels == Len(channel_history) <= MAX_CHANNELS

(***************************************************************************)
(* Properties of should_respond.                                           *)
(***************************************************************************)
\* C22: should_respond is false when the agent is deactivated; for an
\* agent-authored message it is true iff the channel is shared, the agent
\* is addressed and the suppression is not set; for a human-authored
\* message it is true iff the channel is the agent's own or the channel is
\* shared and the agent is addressed.  The call changes no state.
C22_ShouldRespond ==
    [][respond_call' # <<>> =>
         LET msg == respond_call'[1]
             value == respond_ret'[1]
         IN
         /\ value \in BOOLEAN
         /\ ~agent_active => value = FALSE
         /\ (agent_active /\ msg.is_bot) =>
               (value <=> /\ msg.is_team_channel
                          /\ msg.is_mention
                          /\ ~suppress_bot_replies)
         /\ (agent_active /\ ~msg.is_bot) =>
               (value <=> \/ msg.is_own_channel
                          \/ msg.is_team_channel /\ msg.is_mention)
         /\ UNCHANGED <<agent_active, channelVars, historyVars>>]_vars

\* should_respond refused an agent-authored message that addresses the
\* agent in a shared channel, because the suppression is set
C22_Witness ==
    /\ agent_active
    /\ suppress_bot_replies
    /\ respond_call # <<>>
    /\ respond_call[1].is_bot
    /\ respond_call[1].is_team_channel
    /\ respond_call[1].is_mention
    /\ respond_ret = <<FALSE>>

(***************************************************************************)
(* Properties of the message cycle.                                        *)
(***************************************************************************)
\* C23: from a single reasoning reply at most 2 actions are executed, on
\* either reply path: the first two blocks in textual order, the rest are
\* dropped.
C23_AtMostTwoActions ==
    /\ Len(reply_executed) <= 2
    /\ \A i \in 1..Len(reply_executed) : reply_executed[i][1] = i

\* C30: a cycle whose reasoning task was cancelled before it completed
\* executes no action (hence enqueues no approval), appends nothing to the
\* history, sends the cancellation notice and nothing else, and lets no
\* exception leave the handler.
C30_CancelledCycleSuppressed ==
    reply_cancel
    => /\ reply_executed = <<>>
       /\ reply_todo = <<>>
       /\ ~reply_saved
       /\ ~reply_raised
       /\ reply_sent = IF reply_pc = "done" THEN {"cancelled"} ELSE {}

\* C30 witness: the cancelled cycle has ended with the notice sent.
C30_Witness ==
    /\ reply_cancel
    /\ reply_pc = "done"
    /\ "cancelled" \in reply_sent

(***************************************************************************)
(* Properties of the texts handed to the reasoning call and sent.          *)
(***************************************************************************)
\* C33: the text handed to the reasoning call for an inbound message holds
\* no action block, on either reply path.
C33_NoActionBlockReachesReasoning ==
    (text_kind = "message" /\ text_pc = "reasoning")
    => ~HasActionBlock(text_passed)

====
